---------------------------- MODULE Spec2Model ----------------------------
(***************************************************************************)
(* A model of the proof-of-work core of juno: the RandomX key manager      *)
(* (src/src/crypto/randomx_wrapper.cpp) and the header verifier            *)
(* (CheckRandomXSolution in src/src/pow.cpp).                              *)
(*                                                                         *)
(* The key manager is modelled as threads that call its entry points and   *)
(* advance one shared-memory access (or one critical-section segment) at a *)
(* time.  The RandomX library is outside the repository; it is modelled by *)
(* its documented contract: a cache holds the key it was last initialised  *)
(* with, a VM is created from a cache, and a VM must be re-bound           *)
(* (randomx_vm_set_cache) whenever its cache is re-initialised with a new  *)
(* key.  A VM that was not re-bound, or whose cache was released, hashes   *)
(* with unspecified results; both are modelled as a choice of outcomes.    *)
(***************************************************************************)
EXTENDS Integers, Sequences, FiniteSets, TLC

(***************************************************************************)
(* Bounds of the model.                                                    *)
(***************************************************************************)
NumThreads == 2
NumEpochs == 1
NumInputs == 1

(***************************************************************************)
(* Program constants.                                                      *)
(***************************************************************************)
RANDOMX_SEEDHASH_EPOCH_BLOCKS == 2048
RANDOMX_SEEDHASH_EPOCH_LAG == 96
\* A 32-byte value is modelled by the integer it encodes, little-endian:
\* the genesis seed 08 00 .. 00 is 8, the zero-initialised static buffer is 0.
GenesisSeed == 8
ZeroSeed == 0
SeedSize == 32
\* The contents of a cache that was allocated and not yet initialised.
NoKey == -1

Threads == 1..NumThreads
NoThread == 0
Inputs == 1..NumInputs

(***************************************************************************)
(* RandomX_SeedHeight: 0 up to EPOCH_BLOCKS + LAG, then (h - LAG - 1) with *)
(* the low bits cleared by the mask ~(EPOCH_BLOCKS - 1); EPOCH_BLOCKS is a *)
(* power of two, so clearing the bits subtracts the remainder.             *)
(***************************************************************************)
ClearLowBits(x, pow2) == x - (x % pow2)

\* RandomX_SeedHeight without the mask: the height less the lag.
RandomX_SeedHeight_NoMask(height) ==
    IF height <= RANDOMX_SEEDHASH_EPOCH_BLOCKS + RANDOMX_SEEDHASH_EPOCH_LAG
    THEN 0
    ELSE height - RANDOMX_SEEDHASH_EPOCH_LAG - 1

\* RandomX_SeedHeight masking height - LAG instead of height - LAG - 1.
RandomX_SeedHeight_LagOffByOne(height) ==
    IF height <= RANDOMX_SEEDHASH_EPOCH_BLOCKS + RANDOMX_SEEDHASH_EPOCH_LAG
    THEN 0
    ELSE ClearLowBits(height - RANDOMX_SEEDHASH_EPOCH_LAG,
                      RANDOMX_SEEDHASH_EPOCH_BLOCKS)

\* RandomX_SeedHeight with the genesis epoch ending one block late.
RandomX_SeedHeight_LateTransition(height) ==
    IF height <= RANDOMX_SEEDHASH_EPOCH_BLOCKS + RANDOMX_SEEDHASH_EPOCH_LAG + 1
    THEN 0
    ELSE ClearLowBits(height - RANDOMX_SEEDHASH_EPOCH_LAG - 1,
                      RANDOMX_SEEDHASH_EPOCH_BLOCKS)

RandomX_SeedHeight(height) ==
    IF height <= RANDOMX_SEEDHASH_EPOCH_BLOCKS + RANDOMX_SEEDHASH_EPOCH_LAG
    THEN 0
    ELSE ClearLowBits(height - RANDOMX_SEEDHASH_EPOCH_LAG - 1,
                      RANDOMX_SEEDHASH_EPOCH_BLOCKS)

(***************************************************************************)
(* The chain the verifier walks.  A block hash is a 32-byte value; the     *)
(* hash of the block at a seed height stands for the epoch's seed.         *)
(***************************************************************************)
BlockHashAt(height) == 100 + (height \div RANDOMX_SEEDHASH_EPOCH_BLOCKS)

EpochSeeds == {BlockHashAt(e * RANDOMX_SEEDHASH_EPOCH_BLOCKS) : e \in 1..NumEpochs}
Seeds == {GenesisSeed} \cup EpochSeeds
\* The sequential specification walks one epoch more.
EpochsSeq == 1..(NumEpochs + 1)
EpochSeedsSeq == {BlockHashAt(e * RANDOMX_SEEDHASH_EPOCH_BLOCKS) : e \in EpochsSeq}
\* The seeds of the sequential specification: with the all-zero seed the
\* unit tests install for the genesis epoch.
SeqSeeds == Seeds \cup EpochSeedsSeq \cup {ZeroSeed}

\* Predecessor indexes handed to CheckRandomXSolution: the last height of
\* the genesis epoch, and the last height before each later epoch's first
\* block.  linked = FALSE is an index whose ancestor walk finds nothing.
PrevHeights ==
    {RANDOMX_SEEDHASH_EPOCH_BLOCKS + RANDOMX_SEEDHASH_EPOCH_LAG - 1}
    \cup {e * RANDOMX_SEEDHASH_EPOCH_BLOCKS + RANDOMX_SEEDHASH_EPOCH_LAG
             : e \in EpochsSeq}
NoPrev == [present |-> FALSE, nHeight |-> 0, linked |-> FALSE]
PrevIndexes ==
    {[present |-> TRUE, nHeight |-> h, linked |-> l] :
        h \in PrevHeights, l \in BOOLEAN}
NullIndex == [found |-> FALSE, nHeight |-> 0, hash |-> ZeroSeed]

\* CBlockIndex::GetAncestor: nothing above the index's own height.
GetAncestor(prev, height) ==
    IF height > prev.nHeight \/ ~prev.linked
    THEN NullIndex
    ELSE [found |-> TRUE, nHeight |-> height, hash |-> BlockHashAt(height)]

(***************************************************************************)
(* The RandomX library.                                                    *)
(***************************************************************************)
\* The 32-byte output of RandomX under key `seed` on `input`; distinct
\* (seed, input) pairs give distinct outputs.
RandomX(seed, input) == <<seed, input>>
\* An output that is the hash under no key: what a VM whose compiled
\* programs and cache memory disagree, or whose cache was freed, computes.
Garbage(input) == <<NoKey, input>>
NoOutput == <<>>

NullCache == [alloc |-> FALSE, key |-> NoKey]
NullVM == [made |-> FALSE, key |-> NoKey, live |-> FALSE]

\* randomx_alloc_cache: a fresh, uninitialised cache, or nullptr.
AllocResults == {[alloc |-> TRUE, key |-> NoKey], NullCache}
\* randomx_init_cache(cache, seed, 32): the cache now holds `seed`.
InitCache(cache, seed) == [cache EXCEPT !.key = seed]
\* randomx_create_vm(flags, cache, nullptr): a VM bound to the cache as it
\* is keyed now, or nullptr.
CreateVMResults(cache) == {[made |-> TRUE, key |-> cache.key, live |-> TRUE], NullVM}
\* A VM whose cache was released: what its cache held is no longer there.
Dangling(vm) == IF vm.made THEN [made |-> TRUE, key |-> NoKey, live |-> FALSE] ELSE vm

\* randomx_calculate_hash(vm, input, ..): the outputs a build can produce.
\* A VM whose cache was released reads freed memory; a VM whose cache was
\* re-keyed since the VM was created was never re-bound to it.
HashOutcomes(vm, cache, input) ==
    IF ~vm.live
    THEN {RandomX(s, input) : s \in Seeds \cup EpochSeedsSeq} \cup {Garbage(input)}
    ELSE IF vm.key # cache.key
         THEN {RandomX(cache.key, input), Garbage(input)}
         ELSE {RandomX(cache.key, input)}

(***************************************************************************)
(* State.                                                                  *)
(***************************************************************************)
VARIABLES
    main_cache,             \* randomx_cache* main_cache and what it holds
    main_cache_mutex,       \* the thread holding it, or NoThread
    main_seedhash,          \* unsigned char main_seedhash[32]
    main_seedhash_set,
    secondary_cache,
    secondary_cache_mutex,
    secondary_seedhash,
    secondary_seedhash_set,
    rx_shutting_down,
    rxVM_thread,            \* thread_local ThreadLocalVM, per thread
    liveCaches,             \* caches allocated and not released
    pc,                     \* each thread's position
    call,                   \* each thread's arguments, locals and result
    lastUsed                \* history: the slot looked up most recently

kmVars == <<main_cache, main_cache_mutex, main_seedhash, main_seedhash_set,
            secondary_cache, secondary_cache_mutex, secondary_seedhash,
            secondary_seedhash_set, rx_shutting_down, rxVM_thread, liveCaches>>
mainVars == <<main_cache, main_seedhash, main_seedhash_set>>
secondaryVars == <<secondary_cache, secondary_seedhash, secondary_seedhash_set>>
vars == <<main_cache, main_cache_mutex, main_seedhash, main_seedhash_set,
          secondary_cache, secondary_cache_mutex, secondary_seedhash,
          secondary_seedhash_set, rx_shutting_down, rxVM_thread, liveCaches,
          pc, call, lastUsed>>

IdleCall ==
    [op |-> "none", seedhash |-> NoKey, input |-> 0, prev |-> NoPrev,
     solution |-> [size |-> 0, data |-> NoOutput],
     usedSeed |-> NoKey, ret |-> FALSE, out |-> NoOutput, oom |-> FALSE,
     init |-> "none", evictedMRU |-> FALSE]

NewCall(op, seedhash, input, prev) ==
    [IdleCall EXCEPT !.op = op, !.seedhash = seedhash, !.input = input,
                     !.prev = prev]

Init ==
    /\ main_cache = NullCache
    /\ main_cache_mutex = NoThread
    /\ main_seedhash = ZeroSeed
    /\ main_seedhash_set = FALSE
    /\ secondary_cache = NullCache
    /\ secondary_cache_mutex = NoThread
    /\ secondary_seedhash = ZeroSeed
    /\ secondary_seedhash_set = FALSE
    /\ rx_shutting_down = FALSE
    /\ rxVM_thread = [t \in Threads |-> [main_vm |-> NullVM, secondary_vm |-> NullVM]]
    /\ liveCaches = 0
    /\ pc = [t \in Threads |-> "idle"]
    /\ call = [t \in Threads |-> IdleCall]
    /\ lastUsed = "none"

\* is_main / is_secondary
is_main(seedhash) == main_seedhash_set /\ seedhash = main_seedhash
is_secondary(seedhash) == secondary_seedhash_set /\ seedhash = secondary_seedhash


NullPtr == NoKey - 1
SeedSizes == {SeedSize, SeedSize - 1}

(***************************************************************************)
(* Thread-local bookkeeping.                                               *)
(***************************************************************************)
Goto(t, label) == pc' = [pc EXCEPT ![t] = label]

\* The function the thread is in returns to the program: the result is
\* kept until the thread goes on (Return).
Done(t, ret, out, oom) ==
    /\ pc' = [pc EXCEPT ![t] = "done"]
    /\ call' = [call EXCEPT ![t].ret = ret, ![t].out = out,
                            ![t].oom = call[t].oom \/ oom]

\* The solutions a header can carry: 32 bytes (the output under the seed
\* the block is to be hashed under, or another 32-byte value), or a vector
\* that is not 32 bytes.
HeaderSolutions(input, seed) ==
    {[size |-> SeedSize, data |-> o] :
        o \in {RandomX(seed, input), Garbage(input)}}
    \cup {[size |-> SeedSize, data |-> RandomX(s, input)] : s \in SeqSeeds}
    \cup {[size |-> SeedSize - 1, data |-> NoOutput]}

\* CheckRandomXSolution after the hash call (pow.cpp 168-188, 193-205):
\* a failed hash is a rejection; then the stored solution is read, its size
\* checked and its bytes compared with the computed hash.
CheckCompare(t, ok, out, oom, usedSeed) ==
    IF ~ok
    THEN /\ pc' = [pc EXCEPT ![t] = "done"]
         /\ call' = [call EXCEPT ![t].ret = FALSE, ![t].out = NoOutput,
                                 ![t].oom = call[t].oom \/ oom]
    ELSE \E sol \in HeaderSolutions(call[t].input, usedSeed) :
            /\ pc' = [pc EXCEPT ![t] = "done"]
            /\ call' = [call EXCEPT
                  ![t].solution = sol,
                  ![t].usedSeed = usedSeed,
                  ![t].out = out,
                  ![t].ret = IF sol.size # SeedSize THEN FALSE
                             ELSE (out = sol.data)]

\* RandomX_Hash / RandomX_Hash_WithSeed return `ok` (and the output buffer)
\* to their caller: the program, or CheckRandomXSolution.  usedSeed is the
\* seed recorded for the slot the hash was served from.
HashReturn(t, ok, out, oom, usedSeed) ==
    IF call[t].op = "check"
    THEN CheckCompare(t, ok, out, oom, usedSeed)
    ELSE /\ pc' = [pc EXCEPT ![t] = "done"]
         /\ call' = [call EXCEPT ![t].ret = ok, ![t].out = out,
                                 ![t].usedSeed = usedSeed,
                                 ![t].oom = call[t].oom \/ oom]

(***************************************************************************)
(* RandomX_Init (randomx_wrapper.cpp 71-107).                              *)
(***************************************************************************)
Call_Init(t) ==
    /\ pc[t] = "idle"
    /\ call' = [call EXCEPT ![t] = NewCall("init", NoKey, 0, NoPrev)]
    /\ Goto(t, "init_lock")
    /\ UNCHANGED <<kmVars, lastUsed>>

\* RandomX_Init returns: to the program, or into RandomX_Hash (line 297).
\* init records what it did: "noop" (a seed was set), "failed" (no cache
\* could be allocated) or "done".
InitReturn(t, oom, init) ==
    /\ call' = [call EXCEPT ![t].oom = call[t].oom \/ oom,
                            ![t].init = init]
    /\ IF call[t].op = "init" THEN Goto(t, "done") ELSE Goto(t, "hash_lock")

\* Lines 73-95: take the mutex, return if a seed is set, allocate.
Init_Lock(t) ==
    /\ pc[t] = "init_lock"
    /\ main_cache_mutex = NoThread
    /\ IF main_seedhash_set
       THEN /\ InitReturn(t, FALSE, "noop")
            /\ UNCHANGED <<kmVars, lastUsed>>
       ELSE \E c \in AllocResults :
            /\ main_cache' = c
            /\ IF c.alloc
               THEN /\ liveCaches' = liveCaches + 1
                    /\ main_cache_mutex' = t
                    /\ Goto(t, "init_initcache")
                    /\ UNCHANGED call
               ELSE /\ InitReturn(t, TRUE, "failed")
                    /\ UNCHANGED <<liveCaches, main_cache_mutex>>
            /\ UNCHANGED <<main_seedhash, main_seedhash_set, secondary_cache,
                           secondary_cache_mutex, secondary_seedhash,
                           secondary_seedhash_set, rx_shutting_down,
                           rxVM_thread, lastUsed>>

\* RandomX_Init without line 100: the seed buffer stays all zero.
Init_InitCache_ZeroSeed(t) ==
    /\ pc[t] = "init_initcache"
    /\ main_cache' = InitCache(main_cache, ZeroSeed)
    /\ main_seedhash' = ZeroSeed
    /\ main_seedhash_set' = TRUE
    /\ main_cache_mutex' = NoThread
    /\ lastUsed' = "main"
    /\ InitReturn(t, FALSE, "done")
    /\ UNCHANGED <<secondary_cache, secondary_cache_mutex, secondary_seedhash,
                   secondary_seedhash_set, rx_shutting_down, rxVM_thread,
                   liveCaches>>

\* Lines 99-104: key the cache with the genesis seed, record it, unlock.
Init_InitCache(t) ==
    /\ pc[t] = "init_initcache"
    /\ main_cache' = InitCache(main_cache, GenesisSeed)
    /\ main_seedhash' = GenesisSeed
    /\ main_seedhash_set' = TRUE
    /\ main_cache_mutex' = NoThread
    /\ lastUsed' = "main"
    /\ InitReturn(t, FALSE, "done")
    /\ UNCHANGED <<secondary_cache, secondary_cache_mutex, secondary_seedhash,
                   secondary_seedhash_set, rx_shutting_down, rxVM_thread,
                   liveCaches>>

(***************************************************************************)
(* RandomX_SetMainSeedHash (154-195).                                      *)
(***************************************************************************)
\* RandomX_SetMainSeedHash without the early exit of lines 163-166.
Call_SetMainSeedHash_NoEarlyExit(t, seedhash, size) ==
    /\ pc[t] = "idle"
    /\ IF seedhash = NullPtr \/ size # SeedSize
       THEN /\ call' = [call EXCEPT ![t] = NewCall("set", NullPtr, 0, NoPrev)]
            /\ Goto(t, "done")
       ELSE /\ call' = [call EXCEPT ![t] = NewCall("set", seedhash, 0, NoPrev)]
            /\ Goto(t, "set_lock")
    /\ UNCHANGED <<kmVars, lastUsed>>

\* Lines 156-166: the argument check and the unlocked early exit.
Call_SetMainSeedHash(t, seedhash, size) ==
    /\ pc[t] = "idle"
    /\ IF seedhash = NullPtr \/ size # SeedSize
       THEN /\ call' = [call EXCEPT ![t] = NewCall("set", NullPtr, 0, NoPrev)]
            /\ Goto(t, "done")
            /\ UNCHANGED lastUsed
       ELSE IF is_main(seedhash)
            THEN /\ call' = [call EXCEPT ![t] = NewCall("set", seedhash, 0, NoPrev)]
                 /\ Goto(t, "done")
                 /\ lastUsed' = "main"
            ELSE /\ call' = [call EXCEPT ![t] = NewCall("set", seedhash, 0, NoPrev)]
                 /\ Goto(t, "set_lock")
                 /\ UNCHANGED lastUsed
    /\ UNCHANGED <<kmVars>>

\* RandomX_SetMainSeedHash without the test of line 181: a cache is
\* allocated for every new seed and the one in the slot is lost.
Set_Lock_AlwaysAllocates(t) ==
    /\ pc[t] = "set_lock"
    /\ main_cache_mutex = NoThread
    /\ IF is_main(call[t].seedhash)
       THEN /\ Goto(t, "done")
            /\ lastUsed' = "main"
            /\ UNCHANGED <<kmVars, call>>
       ELSE /\ UNCHANGED lastUsed
            /\ \E c \in AllocResults :
                    /\ main_cache' = c
                    /\ IF c.alloc
                       THEN /\ liveCaches' = liveCaches + 1
                            /\ main_cache_mutex' = t
                            /\ Goto(t, "set_initcache")
                            /\ UNCHANGED call
                       ELSE /\ Done(t, FALSE, NoOutput, TRUE)
                            /\ UNCHANGED <<liveCaches, main_cache_mutex>>
            /\ UNCHANGED <<main_seedhash, main_seedhash_set, secondary_cache,
                           secondary_cache_mutex, secondary_seedhash,
                           secondary_seedhash_set, rx_shutting_down,
                           rxVM_thread>>

\* RandomX_SetMainSeedHash without the lock_guard of line 168.
Set_Lock_NoMutex(t) ==
    /\ pc[t] = "set_lock"
    /\ IF is_main(call[t].seedhash)
       THEN /\ Goto(t, "done")
            /\ lastUsed' = "main"
            /\ UNCHANGED <<kmVars, call>>
       ELSE /\ UNCHANGED lastUsed
            /\ IF ~main_cache.alloc
               THEN \E c \in AllocResults :
                    /\ main_cache' = c
                    /\ IF c.alloc
                       THEN /\ liveCaches' = liveCaches + 1
                            /\ Goto(t, "set_initcache")
                            /\ UNCHANGED call
                       ELSE /\ Done(t, FALSE, NoOutput, TRUE)
                            /\ UNCHANGED liveCaches
               ELSE /\ Goto(t, "set_initcache")
                    /\ UNCHANGED <<main_cache, liveCaches, call>>
            /\ UNCHANGED <<main_seedhash, main_seedhash_set, secondary_cache,
                           secondary_cache_mutex, secondary_seedhash,
                           secondary_seedhash_set, rx_shutting_down,
                           rxVM_thread, main_cache_mutex>>

\* Lines 168-187: take the mutex, check again, allocate if there is no cache.
Set_Lock(t) ==
    /\ pc[t] = "set_lock"
    /\ main_cache_mutex = NoThread
    /\ IF is_main(call[t].seedhash)
       THEN /\ Goto(t, "done")
            /\ lastUsed' = "main"
            /\ UNCHANGED <<kmVars, call>>
       ELSE /\ UNCHANGED lastUsed
            /\ IF ~main_cache.alloc
               THEN \E c \in AllocResults :
                    /\ main_cache' = c
                    /\ IF c.alloc
                       THEN /\ liveCaches' = liveCaches + 1
                            /\ main_cache_mutex' = t
                            /\ Goto(t, "set_initcache")
                            /\ UNCHANGED call
                       ELSE /\ Done(t, FALSE, NoOutput, TRUE)
                            /\ UNCHANGED <<liveCaches, main_cache_mutex>>
               ELSE /\ main_cache_mutex' = t
                    /\ Goto(t, "set_initcache")
                    /\ UNCHANGED <<main_cache, liveCaches, call>>
            /\ UNCHANGED <<main_seedhash, main_seedhash_set, secondary_cache,
                           secondary_cache_mutex, secondary_seedhash,
                           secondary_seedhash_set, rx_shutting_down,
                           rxVM_thread>>

\* Lines 190-192: re-key the cache in place, record the seed, unlock.
Set_InitCache(t) ==
    /\ pc[t] = "set_initcache"
    /\ main_cache' = InitCache(main_cache, call[t].seedhash)
    /\ main_seedhash' = call[t].seedhash
    /\ main_seedhash_set' = TRUE
    /\ main_cache_mutex' = NoThread
    /\ lastUsed' = "main"
    /\ Goto(t, "done")
    /\ call' = [call EXCEPT ![t].init = "done"]
    /\ UNCHANGED <<secondary_cache, secondary_cache_mutex, secondary_seedhash,
                   secondary_seedhash_set, rx_shutting_down, rxVM_thread,
                   liveCaches>>

(***************************************************************************)
(* RandomX_Hash_WithSeed (198-281).                                        *)
(***************************************************************************)
\* RandomX_Hash_WithSeed without lines 205-208.
Call_HashWithSeed_NoFlagCheck(t, seedhash, size, input, output) ==
    /\ pc[t] = "idle"
    /\ IF seedhash = NullPtr \/ size # SeedSize \/ input = NullPtr \/ ~output
       THEN /\ call' = [call EXCEPT ![t] = NewCall("hws", NullPtr, NullPtr, NoPrev)]
            /\ Goto(t, "done")
       ELSE /\ call' = [call EXCEPT ![t] = NewCall("hws", seedhash, input, NoPrev)]
            /\ Goto(t, "hws_main_check")
    /\ UNCHANGED <<kmVars, lastUsed>>

\* Lines 201-208: the argument check, then the shutdown flag.
Call_HashWithSeed(t, seedhash, size, input, output) ==
    /\ pc[t] = "idle"
    /\ IF seedhash = NullPtr \/ size # SeedSize \/ input = NullPtr \/ ~output
       THEN /\ call' = [call EXCEPT ![t] = NewCall("hws", NullPtr, NullPtr, NoPrev)]
            /\ Goto(t, "done")
       ELSE /\ call' = [call EXCEPT ![t] = NewCall("hws", seedhash, input, NoPrev)]
            /\ IF rx_shutting_down
               THEN Goto(t, "done")
               ELSE Goto(t, "hws_main_check")
    /\ UNCHANGED <<kmVars, lastUsed>>

\* Line 215: the unlocked is_main.
HWS_MainCheck(t) ==
    /\ pc[t] = "hws_main_check"
    /\ IF is_main(call[t].seedhash)
       THEN Goto(t, "hws_main_lock")
       ELSE Goto(t, "hws_sec_check")
    /\ UNCHANGED <<kmVars, call, lastUsed>>

\* The main fast path with the lock_guard ending before the hash.
HWS_MainLock_Unlocked(t) ==
    /\ pc[t] = "hws_main_lock"
    /\ main_cache_mutex = NoThread
    /\ IF is_main(call[t].seedhash) /\ main_cache.alloc
       THEN /\ lastUsed' = "main"
            /\ IF ~rxVM_thread[t].main_vm.made
               THEN \E vm \in CreateVMResults(main_cache) :
                    /\ rxVM_thread' = [rxVM_thread EXCEPT ![t].main_vm = vm]
                    /\ IF vm.made
                       THEN /\ Goto(t, "main_calc")
                            /\ UNCHANGED call
                       ELSE HashReturn(t, FALSE, NoOutput, TRUE, NoKey)
               ELSE /\ Goto(t, "main_calc")
                    /\ UNCHANGED <<rxVM_thread, call>>
       ELSE /\ Goto(t, "hws_sec_check")
            /\ UNCHANGED <<rxVM_thread, call, lastUsed>>
    /\ UNCHANGED <<mainVars, secondaryVars, secondary_cache_mutex,
                   main_cache_mutex, rx_shutting_down, liveCaches>>

\* The main fast path with a lock_guard whose scope is the whole function:
\* a failed second check goes on to the secondary slot with the main mutex
\* held.
HWS_MainLock_HeldToTheEnd(t) ==
    /\ pc[t] = "hws_main_lock"
    /\ main_cache_mutex = NoThread
    /\ IF is_main(call[t].seedhash) /\ main_cache.alloc
       THEN /\ lastUsed' = "main"
            /\ IF ~rxVM_thread[t].main_vm.made
               THEN \E vm \in CreateVMResults(main_cache) :
                    /\ rxVM_thread' = [rxVM_thread EXCEPT ![t].main_vm = vm]
                    /\ IF vm.made
                       THEN /\ main_cache_mutex' = t
                            /\ Goto(t, "main_calc")
                            /\ UNCHANGED call
                       ELSE /\ HashReturn(t, FALSE, NoOutput, TRUE, NoKey)
                            /\ UNCHANGED main_cache_mutex
               ELSE /\ main_cache_mutex' = t
                    /\ Goto(t, "main_calc")
                    /\ UNCHANGED <<rxVM_thread, call>>
       ELSE /\ Goto(t, "hws_sec_check")
            /\ main_cache_mutex' = t
            /\ UNCHANGED <<rxVM_thread, call, lastUsed>>
    /\ UNCHANGED <<mainVars, secondaryVars, secondary_cache_mutex,
                   rx_shutting_down, liveCaches>>

\* Lines 216-225: under the main mutex, check again; create the thread's
\* main VM if it has none, reuse it otherwise.  The mutex stays held.
HWS_MainLock(t) ==
    /\ pc[t] = "hws_main_lock"
    /\ main_cache_mutex = NoThread
    /\ IF is_main(call[t].seedhash) /\ main_cache.alloc
       THEN /\ lastUsed' = "main"
            /\ IF ~rxVM_thread[t].main_vm.made
               THEN \E vm \in CreateVMResults(main_cache) :
                    /\ rxVM_thread' = [rxVM_thread EXCEPT ![t].main_vm = vm]
                    /\ IF vm.made
                       THEN /\ main_cache_mutex' = t
                            /\ Goto(t, "main_calc")
                            /\ UNCHANGED call
                       ELSE /\ HashReturn(t, FALSE, NoOutput, TRUE, NoKey)
                            /\ UNCHANGED main_cache_mutex
               ELSE /\ main_cache_mutex' = t
                    /\ Goto(t, "main_calc")
                    /\ UNCHANGED <<rxVM_thread, call>>
       ELSE /\ Goto(t, "hws_sec_check")
            /\ UNCHANGED <<main_cache_mutex, rxVM_thread, call, lastUsed>>
    /\ UNCHANGED <<mainVars, secondaryVars, secondary_cache_mutex,
                   rx_shutting_down, liveCaches>>

\* Lines 226-227 and 321-323: randomx_calculate_hash on the thread's main
\* VM, with the main mutex held; then the lock_guard's scope ends.
Main_Calc(t) ==
    /\ pc[t] = "main_calc"
    /\ main_cache_mutex = t
    /\ \E o \in HashOutcomes(rxVM_thread[t].main_vm, main_cache, call[t].input) :
          HashReturn(t, TRUE, o, FALSE, main_seedhash)
    /\ main_cache_mutex' = NoThread
    /\ UNCHANGED <<mainVars, secondaryVars, secondary_cache_mutex,
                   rx_shutting_down, rxVM_thread, liveCaches, lastUsed>>

\* Line 232: the unlocked is_secondary.
HWS_SecCheck(t) ==
    /\ pc[t] = "hws_sec_check"
    /\ IF is_secondary(call[t].seedhash)
       THEN Goto(t, "hws_sec_lock")
       ELSE Goto(t, "hws_slow_lock")
    /\ UNCHANGED <<kmVars, call, lastUsed>>

\* Lines 233-241.
HWS_SecLock(t) ==
    /\ pc[t] = "hws_sec_lock"
    /\ secondary_cache_mutex = NoThread
    /\ IF is_secondary(call[t].seedhash) /\ secondary_cache.alloc
       THEN /\ lastUsed' = "secondary"
            /\ IF ~rxVM_thread[t].secondary_vm.made
               THEN \E vm \in CreateVMResults(secondary_cache) :
                    /\ rxVM_thread' = [rxVM_thread EXCEPT ![t].secondary_vm = vm]
                    /\ IF vm.made
                       THEN /\ secondary_cache_mutex' = t
                            /\ Goto(t, "sec_calc")
                            /\ UNCHANGED call
                       ELSE /\ HashReturn(t, FALSE, NoOutput, TRUE, NoKey)
                            /\ UNCHANGED secondary_cache_mutex
               ELSE /\ secondary_cache_mutex' = t
                    /\ Goto(t, "sec_calc")
                    /\ UNCHANGED <<rxVM_thread, call>>
       ELSE /\ Goto(t, "hws_slow_lock")
            /\ UNCHANGED <<secondary_cache_mutex, rxVM_thread, call, lastUsed>>
    /\ UNCHANGED <<mainVars, secondaryVars, main_cache_mutex,
                   rx_shutting_down, liveCaches>>

\* Lines 242-243 and 278-279: randomx_calculate_hash on the thread's
\* secondary VM, with the secondary mutex held.
Sec_Calc(t) ==
    /\ pc[t] = "sec_calc"
    /\ secondary_cache_mutex = t
    /\ \E o \in HashOutcomes(rxVM_thread[t].secondary_vm, secondary_cache,
                             call[t].input) :
          HashReturn(t, TRUE, o, FALSE, secondary_seedhash)
    /\ secondary_cache_mutex' = NoThread
    /\ UNCHANGED <<mainVars, secondaryVars, main_cache_mutex,
                   rx_shutting_down, rxVM_thread, liveCaches, lastUsed>>

\* Lines 269-276: the slow path destroys the thread's secondary VM and
\* creates one from the secondary cache as it is now.  evictedMRU is
\* history: the call replaced the slot that was looked up most recently.
SlowCreateVM(t, cache, evictedMRU) ==
    \E vm \in CreateVMResults(cache) :
        /\ rxVM_thread' = [rxVM_thread EXCEPT ![t].secondary_vm = vm]
        /\ IF vm.made
           THEN /\ secondary_cache_mutex' = t
                /\ Goto(t, "sec_calc")
                /\ call' = [call EXCEPT ![t].evictedMRU = evictedMRU]
           ELSE /\ secondary_cache_mutex' = NoThread
                /\ HashReturn(t, FALSE, NoOutput, TRUE, NoKey)

\* Lines 249-261 (and 269-276 when the seed is the secondary seed by now):
\* take the secondary mutex; unless the seed is the secondary seed,
\* allocate the secondary cache if there is none and go on to re-key it.
HWS_SlowLock(t) ==
    /\ pc[t] = "hws_slow_lock"
    /\ secondary_cache_mutex = NoThread
    /\ IF ~is_secondary(call[t].seedhash)
       THEN /\ IF ~secondary_cache.alloc
               THEN \E c \in AllocResults :
                    /\ secondary_cache' = c
                    /\ IF c.alloc
                       THEN /\ liveCaches' = liveCaches + 1
                            /\ secondary_cache_mutex' = t
                            /\ Goto(t, "hws_slow_initcache")
                            /\ UNCHANGED call
                       ELSE /\ HashReturn(t, FALSE, NoOutput, TRUE, NoKey)
                            /\ UNCHANGED <<liveCaches, secondary_cache_mutex>>
               ELSE /\ secondary_cache_mutex' = t
                    /\ Goto(t, "hws_slow_initcache")
                    /\ UNCHANGED <<secondary_cache, liveCaches, call>>
            /\ UNCHANGED <<rxVM_thread, lastUsed>>
       ELSE /\ SlowCreateVM(t, secondary_cache, FALSE)
            /\ lastUsed' = "secondary"
            /\ UNCHANGED <<secondary_cache, liveCaches>>
    /\ UNCHANGED <<mainVars, main_cache_mutex, secondary_seedhash,
                   secondary_seedhash_set, rx_shutting_down>>

\* The slow path without line 264: the seed of the re-keyed cache is not
\* recorded.
HWS_SlowInitCache_SeedNotRecorded(t) ==
    /\ pc[t] = "hws_slow_initcache"
    /\ secondary_cache_mutex = t
    /\ secondary_cache' = InitCache(secondary_cache, call[t].seedhash)
    /\ secondary_seedhash_set' = TRUE
    /\ SlowCreateVM(t, secondary_cache', FALSE)
    /\ lastUsed' = "secondary"
    /\ UNCHANGED <<mainVars, main_cache_mutex, secondary_seedhash,
                   rx_shutting_down, liveCaches>>

\* The slow path recording the requested seed as the main seed as well.
HWS_SlowInitCache_RecordsMainSeed(t) ==
    /\ pc[t] = "hws_slow_initcache"
    /\ secondary_cache_mutex = t
    /\ secondary_cache' = InitCache(secondary_cache, call[t].seedhash)
    /\ secondary_seedhash' = call[t].seedhash
    /\ secondary_seedhash_set' = TRUE
    /\ main_seedhash' = call[t].seedhash
    /\ SlowCreateVM(t, secondary_cache',
                    main_seedhash_set /\ secondary_seedhash_set
                        /\ lastUsed = "secondary")
    /\ lastUsed' = "secondary"
    /\ UNCHANGED <<main_cache, main_seedhash_set, main_cache_mutex,
                   rx_shutting_down, liveCaches>>

\* Lines 263-276: re-key the secondary cache in place, record the seed,
\* replace the thread's secondary VM.
HWS_SlowInitCache(t) ==
    /\ pc[t] = "hws_slow_initcache"
    /\ secondary_cache_mutex = t
    /\ secondary_cache' = InitCache(secondary_cache, call[t].seedhash)
    /\ secondary_seedhash' = call[t].seedhash
    /\ secondary_seedhash_set' = TRUE
    /\ SlowCreateVM(t, secondary_cache',
                    main_seedhash_set /\ secondary_seedhash_set
                        /\ lastUsed = "secondary")
    /\ lastUsed' = "secondary"
    /\ UNCHANGED <<mainVars, main_cache_mutex, rx_shutting_down, liveCaches>>

(***************************************************************************)
(* RandomX_Hash (283-324).                                                 *)
(***************************************************************************)
\* Lines 285-293: the argument check, then the shutdown flag.
Call_Hash(t, input, output) ==
    /\ pc[t] = "idle"
    /\ IF input = NullPtr \/ ~output
       THEN /\ call' = [call EXCEPT ![t] = NewCall("hash", NoKey, NullPtr, NoPrev)]
            /\ Goto(t, "done")
       ELSE /\ call' = [call EXCEPT ![t] = NewCall("hash", NoKey, input, NoPrev)]
            /\ IF rx_shutting_down
               THEN Goto(t, "done")
               ELSE Goto(t, "hash_check_set")
    /\ UNCHANGED <<kmVars, lastUsed>>

\* Lines 296-298: the unlocked read of main_seedhash_set.
Hash_CheckSet(t) ==
    /\ pc[t] = "hash_check_set"
    /\ IF ~main_seedhash_set
       THEN Goto(t, "init_lock")
       ELSE Goto(t, "hash_lock")
    /\ UNCHANGED <<kmVars, call, lastUsed>>

\* Lines 301-318.
Hash_Lock(t) ==
    /\ pc[t] = "hash_lock"
    /\ main_cache_mutex = NoThread
    /\ IF ~main_cache.alloc
       THEN /\ HashReturn(t, FALSE, NoOutput, FALSE, NoKey)
            /\ UNCHANGED <<main_cache_mutex, rxVM_thread, lastUsed>>
       ELSE /\ lastUsed' = "main"
            /\ IF ~rxVM_thread[t].main_vm.made
               THEN \E vm \in CreateVMResults(main_cache) :
                    /\ rxVM_thread' = [rxVM_thread EXCEPT ![t].main_vm = vm]
                    /\ IF vm.made
                       THEN /\ main_cache_mutex' = t
                            /\ Goto(t, "main_calc")
                            /\ UNCHANGED call
                       ELSE /\ HashReturn(t, FALSE, NoOutput, TRUE, NoKey)
                            /\ UNCHANGED main_cache_mutex
               ELSE /\ main_cache_mutex' = t
                    /\ Goto(t, "main_calc")
                    /\ UNCHANGED <<rxVM_thread, call>>
    /\ UNCHANGED <<mainVars, secondaryVars, secondary_cache_mutex,
                   rx_shutting_down, liveCaches>>

(***************************************************************************)
(* RandomX_Shutdown (109-151).                                             *)
(***************************************************************************)
\* randomx_release_cache on a slot's cache: every VM created from it, on
\* whatever thread, now points at freed memory.
ReleaseVMs(vms, slot) ==
    [t \in Threads |->
        IF slot = "main"
        THEN [vms[t] EXCEPT !.main_vm = Dangling(@)]
        ELSE [vms[t] EXCEPT !.secondary_vm = Dangling(@)]]

\* Lines 114-125: set the flag, destroy the calling thread's own VMs.
\* Line 129 (the 100 ms sleep) is the time the other threads may take steps.
Call_Shutdown(t) ==
    /\ pc[t] = "idle"
    /\ call' = [call EXCEPT ![t] = NewCall("shutdown", NoKey, 0, NoPrev)]
    /\ rx_shutting_down' = TRUE
    /\ rxVM_thread' = [rxVM_thread EXCEPT ![t] =
                          [main_vm |-> NullVM, secondary_vm |-> NullVM]]
    /\ Goto(t, "sd_main")
    /\ UNCHANGED <<mainVars, secondaryVars, main_cache_mutex,
                   secondary_cache_mutex, liveCaches, lastUsed>>

\* RandomX_Shutdown without line 138: the main cache is released and the
\* flag stays set.
SD_Main_FlagNotCleared(t) ==
    /\ pc[t] = "sd_main"
    /\ main_cache_mutex = NoThread
    /\ IF main_cache.alloc
       THEN /\ main_cache' = NullCache
            /\ liveCaches' = liveCaches - 1
            /\ rxVM_thread' = ReleaseVMs(rxVM_thread, "main")
       ELSE UNCHANGED <<main_cache, liveCaches, rxVM_thread>>
    /\ Goto(t, "sd_sec")
    /\ UNCHANGED <<main_seedhash, main_seedhash_set, main_cache_mutex,
                   secondaryVars, secondary_cache_mutex, rx_shutting_down,
                   call, lastUsed>>

\* Lines 132-139.
SD_Main(t) ==
    /\ pc[t] = "sd_main"
    /\ main_cache_mutex = NoThread
    /\ IF main_cache.alloc
       THEN /\ main_cache' = NullCache
            /\ liveCaches' = liveCaches - 1
            /\ rxVM_thread' = ReleaseVMs(rxVM_thread, "main")
       ELSE UNCHANGED <<main_cache, liveCaches, rxVM_thread>>
    /\ main_seedhash_set' = FALSE
    /\ Goto(t, "sd_sec")
    /\ UNCHANGED <<main_seedhash, main_cache_mutex, secondaryVars,
                   secondary_cache_mutex, rx_shutting_down, call, lastUsed>>

\* Lines 141-150.
SD_Sec(t) ==
    /\ pc[t] = "sd_sec"
    /\ secondary_cache_mutex = NoThread
    /\ IF secondary_cache.alloc
       THEN /\ secondary_cache' = NullCache
            /\ liveCaches' = liveCaches - 1
            /\ rxVM_thread' = ReleaseVMs(rxVM_thread, "secondary")
       ELSE UNCHANGED <<secondary_cache, liveCaches, rxVM_thread>>
    /\ secondary_seedhash_set' = FALSE
    /\ Goto(t, "done")
    /\ UNCHANGED <<secondary_seedhash, secondary_cache_mutex, mainVars,
                   main_cache_mutex, rx_shutting_down, call, lastUsed>>

(***************************************************************************)
(* CheckRandomXSolution (pow.cpp 127-207).                                 *)
(***************************************************************************)
\* Lines 140-160: the seed of the block after prev.
SeedOf(prev) ==
    LET seedHeight == RandomX_SeedHeight(prev.nHeight + 1)
        pindexSeed == GetAncestor(prev, seedHeight)
    IN IF seedHeight = 0
       THEN [found |-> TRUE, hash |-> GenesisSeed]
       ELSE [found |-> pindexSeed.found, hash |-> pindexSeed.hash]

\* Lines 131-168 and 189-193: serialise the header, resolve the seed, and
\* enter RandomX_Hash_WithSeed (prev given) or RandomX_Hash (no prev), up to
\* their read of the shutdown flag.
Call_CheckRandomXSolution(t, input, prev) ==
    /\ pc[t] = "idle"
    /\ IF prev.present
       THEN LET seed == SeedOf(prev) IN
            /\ call' = [call EXCEPT ![t] =
                  NewCall("check", IF seed.found THEN seed.hash ELSE NoKey,
                          input, prev)]
            /\ IF ~seed.found
               THEN Goto(t, "done")
               ELSE IF rx_shutting_down
                    THEN Goto(t, "done")
                    ELSE Goto(t, "hws_main_check")
       ELSE /\ call' = [call EXCEPT ![t] = NewCall("check", NoKey, input, prev)]
            /\ IF rx_shutting_down
               THEN Goto(t, "done")
               ELSE Goto(t, "hash_check_set")
    /\ UNCHANGED <<kmVars, lastUsed>>

(***************************************************************************)
(* The program around the key manager.                                     *)
(***************************************************************************)
\* The caller takes the result and the thread is free for its next call.
Return(t) ==
    /\ pc[t] = "done"
    /\ Goto(t, "idle")
    /\ call' = [call EXCEPT ![t] = IdleCall]
    /\ UNCHANGED <<kmVars, lastUsed>>

\* ~ThreadLocalVM (lines 33-42): the thread ends and its VMs are destroyed;
\* the thread id then stands for a new thread.
ThreadExit(t) ==
    /\ pc[t] = "idle"
    /\ rxVM_thread[t].main_vm.made \/ rxVM_thread[t].secondary_vm.made
    /\ rxVM_thread' = [rxVM_thread EXCEPT ![t] =
                          [main_vm |-> NullVM, secondary_vm |-> NullVM]]
    /\ UNCHANGED <<mainVars, secondaryVars, main_cache_mutex,
                   secondary_cache_mutex, rx_shutting_down, liveCaches, pc,
                   call, lastUsed>>

\* The calls a thread makes on the key manager, with seeds drawn from S.
KeyManagerCall(t, S) ==
    \/ Call_Init(t)
    \/ \E seedhash \in S \cup {NullPtr}, size \in SeedSizes :
          Call_SetMainSeedHash(t, seedhash, size)
    \/ \E seedhash \in S \cup {NullPtr}, size \in SeedSizes,
          input \in Inputs \cup {NullPtr}, output \in BOOLEAN :
          Call_HashWithSeed(t, seedhash, size, input, output)
    \/ \E input \in Inputs \cup {NullPtr}, output \in BOOLEAN :
          Call_Hash(t, input, output)
    \/ Call_Shutdown(t)

\* The calls a thread makes on the header verifier.
VerifierCall(t) ==
    \E input \in Inputs, prev \in PrevIndexes \cup {NoPrev} :
        Call_CheckRandomXSolution(t, input, prev)

\* A step inside a call, a return, or the end of the thread.
Step(t) ==
    \/ Init_Lock(t)
    \/ Init_InitCache(t)
    \/ Set_Lock(t)
    \/ Set_InitCache(t)
    \/ HWS_MainCheck(t)
    \/ HWS_MainLock(t)
    \/ Main_Calc(t)
    \/ HWS_SecCheck(t)
    \/ HWS_SecLock(t)
    \/ Sec_Calc(t)
    \/ HWS_SlowLock(t)
    \/ HWS_SlowInitCache(t)
    \/ Hash_CheckSet(t)
    \/ Hash_Lock(t)
    \/ SD_Main(t)
    \/ SD_Sec(t)
    \/ Return(t)
    \/ ThreadExit(t)

\* Threads calling the key manager concurrently.
Next == \E t \in Threads : KeyManagerCall(t, Seeds) \/ Step(t)

Spec == Init /\ [][Next]_vars

\* One thread calling the key manager and the verifier in sequence, as the
\* unit tests do; the seeds include the all-zero seed the tests set.
NextSeq == KeyManagerCall(1, SeqSeeds) \/ VerifierCall(1) \/ Step(1)

SpecSeq == Init /\ [][NextSeq]_vars

(***************************************************************************)
(* Properties.                                                             *)
(***************************************************************************)
HashOps == {"hws", "hash", "check"}
Returned(t, op) == pc[t] = "done" /\ call[t].op = op
\* A VM that hashes with programs compiled for another key than its cache
\* holds now, or whose cache was released.
Stale(vm, cache) == vm.made /\ (~vm.live \/ vm.key # cache.key)

\* C1: CheckRandomXSolution returns true exactly when the solution is 32
\* bytes and equals RandomX(seed, preimage), the seed being the main seed the
\* hash was served under (no prev), the genesis seed (seed height 0) or the
\* hash of prev's ancestor at the seed height; it returns false when the
\* ancestor is missing or the key manager refuses to hash.
C1_CheckSolutionExact ==
    \A t \in Threads :
        Returned(t, "check") =>
            LET c == call[t]
                resolved == IF c.prev.present
                            THEN SeedOf(c.prev)
                            ELSE [found |-> TRUE, hash |-> c.usedSeed]
                refused == c.out = NoOutput
            IN IF ~resolved.found \/ refused
               THEN ~c.ret
               ELSE c.ret <=> /\ c.solution.size = SeedSize
                              /\ c.solution.data = RandomX(resolved.hash, c.input)

\* C2: every successful hash of (seed, input) is RandomX(seed, input): for
\* RandomX_Hash_WithSeed under the seed passed, for RandomX_Hash under the
\* main seed it was served under, whatever re-keyings happened before.
C2_HashDeterministic ==
    \A t \in Threads :
        /\ Returned(t, "hws") /\ call[t].ret
              => call[t].out = RandomX(call[t].seedhash, call[t].input)
        /\ Returned(t, "hash") /\ call[t].ret
              => call[t].out = RandomX(call[t].usedSeed, call[t].input)

\* C3: no thread holds a VM whose cache has been released.
C3_NoReleaseWhileBound ==
    \A t \in Threads :
        /\ rxVM_thread[t].main_vm.made => rxVM_thread[t].main_vm.live
        /\ rxVM_thread[t].secondary_vm.made => rxVM_thread[t].secondary_vm.live

\* C4: a hash call invoked when the shutting-down flag is set returns false
\* at once and leaves the key manager's state as it was; the flag, once set,
\* stays set.
C4_ShutdownRefusesHash ==
    [][/\ \A t \in Threads :
             (pc[t] = "idle" /\ pc'[t] # "idle" /\ call'[t].op \in HashOps
                 /\ rx_shutting_down)
             => (pc'[t] = "done" /\ ~call'[t].ret /\ UNCHANGED kmVars)
       /\ rx_shutting_down => rx_shutting_down']_vars

\* A thread was refused a valid hash call while another thread is inside
\* RandomX_Shutdown, between setting the flag and releasing the caches.
C4_Witness ==
    \E t, u \in Threads :
        /\ Returned(t, "hws")
        /\ call[t].seedhash \in Seeds
        /\ ~call[t].ret /\ ~call[t].oom
        /\ rx_shutting_down
        /\ pc[u] = "sd_main"
        /\ main_cache.alloc

\* A call of RandomX_Shutdown has returned and none is in progress.
ShutdownReturned ==
    rx_shutting_down /\ \A t \in Threads : pc[t] \notin {"sd_main", "sd_sec"}

\* C5: once RandomX_Shutdown has returned, no cache is allocated and no seed
\* is recorded in either slot.
C5_EmptyAfterShutdown ==
    ShutdownReturned =>
        /\ ~main_cache.alloc /\ ~main_seedhash_set
        /\ ~secondary_cache.alloc /\ ~secondary_seedhash_set

C7_AtMostFiveCaches == liveCaches <= 5

\* Both slots hold a cache, keyed with different seeds.
C7_Witness ==
    /\ liveCaches = 2
    /\ main_cache.alloc /\ secondary_cache.alloc
    /\ main_seedhash_set /\ secondary_seedhash_set
    /\ main_seedhash # secondary_seedhash

C10_SetMainSeedIdempotent ==
    [][\A t \in Threads :
          /\ (pc[t] = "idle" /\ pc'[t] # "idle" /\ call'[t].op = "set"
                 /\ is_main(call'[t].seedhash))
             => (pc'[t] = "done" /\ UNCHANGED kmVars)
          /\ (pc[t] # "done" /\ pc'[t] = "done" /\ call'[t].op = "set"
                 /\ call'[t].seedhash # NullPtr /\ ~call'[t].oom)
             => /\ main_seedhash_set'
                /\ main_seedhash' = call'[t].seedhash
                /\ main_cache'.alloc
                /\ main_cache'.key = call'[t].seedhash]_vars

\* A second call with the seed that is the main seed has returned early.
C10_Witness ==
    \E t \in Threads :
        /\ Returned(t, "set")
        /\ call[t].seedhash \in Seeds
        /\ call[t].init = "none" /\ ~call[t].oom
        /\ is_main(call[t].seedhash)
        /\ main_cache.key = call[t].seedhash

\* C11: on a thread that calls in sequence, a successful RandomX_Hash
\* returns the output under the main seed installed last.
C11_HashUnderInstalledSeed ==
    \A t \in Threads :
        (Returned(t, "hash") /\ call[t].ret /\ main_seedhash_set)
            => call[t].out = RandomX(main_seedhash, call[t].input)

\* C12: a RandomX_Hash_WithSeed call with valid arguments, made with no
\* shutdown begun and no allocation failing, returns true with the output
\* under the seed asked for.
C12_MissIsNotAnError ==
    \A t \in Threads :
        (/\ Returned(t, "hws")
         /\ call[t].seedhash # NullPtr
         /\ ~call[t].oom
         /\ ~rx_shutting_down)
        => (call[t].ret
              /\ call[t].out = RandomX(call[t].seedhash, call[t].input))

\* The seed the unit tests install before mining on top of `prev`: the
\* all-zero seed in the genesis epoch, the seed-height block's hash later.
TestMainSeed(prev) ==
    LET seedHeight == RandomX_SeedHeight(prev.nHeight + 1)
    IN IF seedHeight = 0 THEN ZeroSeed ELSE BlockHashAt(seedHeight)

\* C13: a header mined with RandomX_Hash_Block under the main seed the tests
\* install for its epoch (all-zero in the genesis epoch, the seed-height
\* block's hash later) is accepted by CheckRandomXSolution given its prev.
C13_MinedHeaderVerifies ==
    \A t \in Threads :
        (/\ Returned(t, "check")
         /\ call[t].prev.present
         /\ call[t].prev.linked
         /\ ~call[t].oom
         /\ ~rx_shutting_down
         /\ main_seedhash_set
         /\ main_seedhash = TestMainSeed(call[t].prev)
         /\ call[t].solution =
               [size |-> SeedSize,
                data |-> RandomX(main_seedhash, call[t].input)])
        => call[t].ret

(***************************************************************************)
(* RandomX_SeedHeight on its own: a caller holds a block height and asks   *)
(* for its seed height.                                                    *)
(***************************************************************************)
MaxHeight == 6400
\* The heights of the LargeBlockHeights test.
LargeHeights == {100000, 1000000}
Heights == 0..MaxHeight \cup LargeHeights

InitSeedHeight ==
    /\ main_cache = NullCache
    /\ main_cache_mutex = NoThread
    /\ main_seedhash = ZeroSeed
    /\ main_seedhash_set = FALSE
    /\ secondary_cache = NullCache
    /\ secondary_cache_mutex = NoThread
    /\ secondary_seedhash = ZeroSeed
    /\ secondary_seedhash_set = FALSE
    /\ rx_shutting_down = FALSE
    /\ rxVM_thread = [t \in Threads |-> [main_vm |-> NullVM, secondary_vm |-> NullVM]]
    /\ liveCaches = 0
    /\ lastUsed = "none"
    /\ \E height \in Heights :
          /\ pc = [t \in Threads |-> IF t = 1 THEN "seed_height" ELSE "idle"]
          /\ call = [t \in Threads |->
                       IF t = 1
                       THEN NewCall("seed_height", NoKey, height, NoPrev)
                       ELSE IdleCall]

\* RandomX_SeedHeight(height) (lines 60-68) returns to its caller.
Call_SeedHeight(t) ==
    /\ pc[t] = "seed_height"
    /\ Goto(t, "done")
    /\ call' = [call EXCEPT ![t].out = RandomX_SeedHeight(call[t].input),
                            ![t].ret = TRUE]
    /\ UNCHANGED <<kmVars, lastUsed>>

NextSeedHeight == Call_SeedHeight(1)
SpecSeedHeight == InitSeedHeight /\ [][NextSeedHeight]_vars

ListedSeedHeights(atMillion) ==
    [h \in {0, 2144, 2145} \cup LargeHeights |->
        CASE h = 0 -> 0
          [] h = 2144 -> 0
          [] h = 2145 -> 2048
          [] h = 100000 -> 98304
          [] h = 1000000 -> atMillion]
SeedHeightTakes(values) ==
    \A t \in Threads :
        (Returned(t, "seed_height") /\ call[t].input \in DOMAIN values)
            => call[t].out = values[call[t].input]

WIDTH == 32
Limbs == 1..WIDTH
Zero256 == [i \in Limbs |-> 0]
\* arith_uint256(uint64_t) for a value below 2^31.
FromWord(w) == [i \in Limbs |-> IF i <= 4 THEN (w \div (256 ^ (i - 1))) % 256 ELSE 0]
\* operator<<= and operator>>= by whole bytes; bytes shifted out are lost.
ShiftLeftBytes(a, n) == [i \in Limbs |-> IF i - n >= 1 THEN a[i - n] ELSE 0]
ShiftRightBytes(a, n) == [i \in Limbs |-> IF i + n <= WIDTH THEN a[i + n] ELSE 0]
\* CompareTo: the highest byte that differs decides.
Less256(a, b) ==
    \E i \in Limbs : a[i] < b[i] /\ \A j \in (i + 1)..WIDTH : a[j] = b[j]
Greater256(a, b) == Less256(b, a)

RECURSIVE AddLimbs(_, _, _, _)
AddLimbs(a, b, i, carry) ==
    IF i > WIDTH THEN <<>>
    ELSE LET n == a[i] + b[i] + carry
         IN IF n < 256
            THEN <<n>> \o AddLimbs(a, b, i + 1, 0)
            ELSE <<n - 256>> \o AddLimbs(a, b, i + 1, 1)
\* operator+=: the carry out of the top byte is lost.
Add256(a, b) == AddLimbs(a, b, 1, 0)

RECURSIVE MulLimbs(_, _, _, _)
MulLimbs(a, b32, i, carry) ==
    IF i > WIDTH THEN <<>>
    ELSE LET n == a[i] * b32 + carry
         IN IF n < 256
            THEN <<n>> \o MulLimbs(a, b32, i + 1, 0)
            ELSE <<n % 256>> \o MulLimbs(a, b32, i + 1, n \div 256)
\* operator*=(uint32_t b32).
Mul256(a, b32) == MulLimbs(a, b32, 1, 0)

RECURSIVE DivLimbs(_, _, _, _)
DivLimbs(a, d, i, rem) ==
    IF i < 1 THEN <<>>
    ELSE LET n == rem * 256 + a[i]
         IN IF n < d
            THEN DivLimbs(a, d, i - 1, n) \o <<0>>
            ELSE DivLimbs(a, d, i - 1, n % d) \o <<n \div d>>
\* operator/= by a divisor that fits a machine word: the floor of a / d.
Div256(a, d) == DivLimbs(a, d, WIDTH, 0)

\* (bits() + 7) / 8: the number of bytes up to the highest one that is set.
SizeInBytes(a) ==
    IF a = Zero256 THEN 0
    ELSE CHOOSE i \in Limbs : a[i] # 0 /\ \A j \in (i + 1)..WIDTH : a[j] = 0
\* GetLow64 of a value that fits three bytes.
GetLow64(a) == a[1] + 256 * a[2] + 65536 * a[3]

\* arith_uint256::SetCompact(nCompact, &fNegative, &fOverflow): the high
\* byte is the size in bytes, bit 23 the sign, the low 23 bits the mantissa.
SetCompact(nCompact) ==
    LET nSize == nCompact \div 16777216
        nWord == nCompact % 8388608
    IN [value |-> IF nSize <= 3
                  THEN FromWord(nWord \div (256 ^ (3 - nSize)))
                  ELSE ShiftLeftBytes(FromWord(nWord), nSize - 3),
        fNegative |-> nWord # 0 /\ (nCompact \div 8388608) % 2 = 1,
        fOverflow |-> nWord # 0 /\ (\/ nSize > 34
                                    \/ (nWord > 255 /\ nSize > 33)
                                    \/ (nWord > 65535 /\ nSize > 32))]

\* arith_uint256::GetCompact(): the three highest bytes and the size; a
\* mantissa with bit 23 set is shifted down a byte so it does not read as a
\* sign.
GetCompact(a) ==
    LET nSize == SizeInBytes(a)
        nCompact == IF nSize <= 3
                    THEN GetLow64(a) * (256 ^ (3 - nSize))
                    ELSE GetLow64(ShiftRightBytes(a, nSize - 3))
    IN IF nCompact >= 8388608
       THEN (nCompact \div 256) + (nSize + 1) * 16777216
       ELSE nCompact + nSize * 16777216

(***************************************************************************)
(* Chain parameters (chainparams.cpp, consensus/params.cpp).               *)
(***************************************************************************)
\* std::nullopt for nPowAllowMinDifficultyBlocksAfterHeight.
NoHeight == -1
\* uint256S("00ff..ff") and uint256S("0f0f..0f") as arith_uint256.
MainPowLimit == [i \in Limbs |-> IF i = WIDTH THEN 0 ELSE 255]
RegTestPowLimit == [i \in Limbs |-> 15]
\* Consensus::PRE_BLOSSOM_POW_TARGET_SPACING and POST_BLOSSOM_..: the pair
\* Zcash ships, and the pair for the 60 s blocks chainparams.cpp speaks of.
TargetSpacings == {[pre |-> 150, post |-> 75], [pre |-> 120, post |-> 60]}

CMainParams(spacing) ==
    [network |-> "main",
     powLimit |-> MainPowLimit,
     nPowAveragingWindow |-> 100,
     nPowMaxAdjustDown |-> 32,
     nPowMaxAdjustUp |-> 16,
     nPreBlossomPowTargetSpacing |-> spacing.pre,
     nPostBlossomPowTargetSpacing |-> spacing.post,
     nPowAllowMinDifficultyBlocksAfterHeight |-> NoHeight,
     fPowNoRetargeting |-> FALSE,
     nBlossomActivationHeight |-> 3]
CTestNetParams(spacing) ==
    [CMainParams(spacing) EXCEPT
        !.network = "test",
        !.nPowAllowMinDifficultyBlocksAfterHeight = 299187]
CRegTestParams(spacing) ==
    [network |-> "regtest",
     powLimit |-> RegTestPowLimit,
     nPowAveragingWindow |-> 17,
     nPowMaxAdjustDown |-> 0,
     nPowMaxAdjustUp |-> 0,
     nPreBlossomPowTargetSpacing |-> spacing.pre,
     nPostBlossomPowTargetSpacing |-> spacing.post,
     nPowAllowMinDifficultyBlocksAfterHeight |-> 0,
     fPowNoRetargeting |-> TRUE,
     nBlossomActivationHeight |-> 3]
ChainParams ==
    UNION {{CMainParams(sp), CTestNetParams(sp), CRegTestParams(sp)} :
              sp \in TargetSpacings}

(***************************************************************************)
(* CheckProofOfWork (pow.cpp 209-226).                                     *)
(***************************************************************************)
\* The same with the hash required to be strictly below the target.
CheckProofOfWork_StrictlyBelow(hash, nBits, params) ==
    LET bnTarget == SetCompact(nBits)
    IN IF \/ bnTarget.fNegative
          \/ bnTarget.value = Zero256
          \/ bnTarget.fOverflow
          \/ Greater256(bnTarget.value, params.powLimit)
       THEN FALSE
       ELSE IF ~Less256(hash, bnTarget.value) THEN FALSE ELSE TRUE

\* hash is the uint256 as its bytes, lowest first, which is how
\* UintToArith256 reads it.
CheckProofOfWork(hash, nBits, params) ==
    LET bnTarget == SetCompact(nBits)
    IN IF \/ bnTarget.fNegative
          \/ bnTarget.value = Zero256
          \/ bnTarget.fOverflow
          \/ Greater256(bnTarget.value, params.powLimit)
       THEN FALSE
       ELSE IF Greater256(hash, bnTarget.value) THEN FALSE ELSE TRUE

\* Compact encodings handed to CheckProofOfWork: the two limits' encodings
\* (0x2000ffff, 0x200f0f0f), the bits of the tests' blocks (0x207fffff),
\* targets below the limits, a target of 1, a three-byte and a two-byte
\* size, a 33-byte size that does not overflow (0x210000ff), zero mantissas,
\* a mantissa shifted out to zero (0x01000012), negative encodings
\* (0x2080ffff, 0x04923456) and overflowing ones (0x21010000, 0x220000ff is
\* not one, 0x22000100, 0x23000001).
SampleBits ==
    {536936447, 537857807, 545259519, 536936446, 520159231, 503382015,
     50331649, 50397184, 33587200, 553648383, 570425599,
     536870912, 0, 16777234, 8388608,
     545325055, 76690518,
     553713664, 570425600, 587202561}
One256 == FromWord(1)
Max256 == [i \in Limbs |-> 255]
\* Hashes around each target: the target itself, one more, and the ends.
SampleHashes ==
    {Zero256, One256, Max256}
    \cup {SetCompact(b).value : b \in SampleBits}
    \cup {Add256(SetCompact(b).value, One256) : b \in SampleBits}

InitProofOfWork ==
    /\ main_cache = NullCache
    /\ main_cache_mutex = NoThread
    /\ main_seedhash = ZeroSeed
    /\ main_seedhash_set = FALSE
    /\ secondary_cache = NullCache
    /\ secondary_cache_mutex = NoThread
    /\ secondary_seedhash = ZeroSeed
    /\ secondary_seedhash_set = FALSE
    /\ rx_shutting_down = FALSE
    /\ rxVM_thread = [t \in Threads |-> [main_vm |-> NullVM, secondary_vm |-> NullVM]]
    /\ liveCaches = 0
    /\ lastUsed = "none"
    /\ \E hash \in SampleHashes, nBits \in SampleBits, params \in ChainParams :
          /\ pc = [t \in Threads |-> IF t = 1 THEN "check_pow" ELSE "idle"]
          /\ call = [t \in Threads |->
                       IF t = 1
                       THEN NewCall("check_pow", NoKey,
                                    [hash |-> hash, nBits |-> nBits,
                                     params |-> params], NoPrev)
                       ELSE IdleCall]

\* CheckProofOfWork(hash, nBits, params) returns to its caller.
Call_CheckProofOfWork(t) ==
    /\ pc[t] = "check_pow"
    /\ Goto(t, "done")
    /\ call' = [call EXCEPT
          ![t].ret = CheckProofOfWork(call[t].input.hash, call[t].input.nBits,
                                      call[t].input.params)]
    /\ UNCHANGED <<kmVars, lastUsed>>

NextProofOfWork == Call_CheckProofOfWork(1)
SpecProofOfWork == InitProofOfWork /\ [][NextProofOfWork]_vars

\* C17: CheckProofOfWork returns true exactly when nBits decodes to a target
\* that is not negative, not zero, not overflowed and not above powLimit,
\* and the hash as a 256-bit unsigned integer is at most the target.
C17_CheckTargetExact ==
    \A t \in Threads :
        Returned(t, "check_pow") =>
            LET in == call[t].input
                target == SetCompact(in.nBits)
            IN call[t].ret <=>
                 /\ ~target.fNegative
                 /\ target.value # Zero256
                 /\ ~target.fOverflow
                 /\ ~Less256(in.params.powLimit, target.value)
                 /\ ~Less256(target.value, in.hash)
\* A hash equal to its target, the target being the limit's encoding, was
\* accepted.
C17_Witness ==
    \E t \in Threads :
        /\ Returned(t, "check_pow")
        /\ call[t].ret
        /\ call[t].input.nBits = GetCompact(call[t].input.params.powLimit)
        /\ call[t].input.hash = SetCompact(call[t].input.nBits).value

(***************************************************************************)
(* GetNextWorkRequired and CalculateNextWorkRequired (pow.cpp 22-107).     *)
(***************************************************************************)
\* C++ integer division: the quotient is truncated toward zero.
TruncDiv(a, b) == IF a >= 0 THEN a \div b ELSE -((-a) \div b)

\* NetworkUpgradeActive(nHeight, UPGRADE_BLOSSOM) and PoWTargetSpacing.
PoWTargetSpacing(params, nHeight) ==
    IF nHeight >= params.nBlossomActivationHeight
    THEN params.nPostBlossomPowTargetSpacing
    ELSE params.nPreBlossomPowTargetSpacing
AveragingWindowTimespan(params, nHeight) ==
    params.nPowAveragingWindow * PoWTargetSpacing(params, nHeight)
MinActualTimespan(params, nHeight) ==
    (AveragingWindowTimespan(params, nHeight) * (100 - params.nPowMaxAdjustUp))
        \div 100
MaxActualTimespan(params, nHeight) ==
    (AveragingWindowTimespan(params, nHeight) * (100 + params.nPowMaxAdjustDown))
        \div 100

\* The dampened timespan with a quotient rounded down instead of toward zero.
ActualTimespan_FloorQuarter(nLastBlockTime, nFirstBlockTime, params, nextHeight) ==
    LET averagingWindowTimespan == AveragingWindowTimespan(params, nextHeight)
        minActualTimespan == MinActualTimespan(params, nextHeight)
        maxActualTimespan == MaxActualTimespan(params, nextHeight)
        dampened == averagingWindowTimespan
                      + (((nLastBlockTime - nFirstBlockTime)
                             - averagingWindowTimespan) \div 4)
    IN IF dampened < minActualTimespan THEN minActualTimespan
       ELSE IF dampened > maxActualTimespan THEN maxActualTimespan
       ELSE dampened

\* The dampened and clamped timespan (lines 81-94).
ActualTimespan(nLastBlockTime, nFirstBlockTime, params, nextHeight) ==
    LET averagingWindowTimespan == AveragingWindowTimespan(params, nextHeight)
        minActualTimespan == MinActualTimespan(params, nextHeight)
        maxActualTimespan == MaxActualTimespan(params, nextHeight)
        dampened == averagingWindowTimespan
                      + TruncDiv((nLastBlockTime - nFirstBlockTime)
                                   - averagingWindowTimespan, 4)
    IN IF dampened < minActualTimespan THEN minActualTimespan
       ELSE IF dampened > maxActualTimespan THEN maxActualTimespan
       ELSE dampened

\* CalculateNextWorkRequired multiplying before it divides.
CalculateNextWorkRequired_MultiplyFirst(bnAvg, nLastBlockTime, nFirstBlockTime, params, nextHeight) ==
    LET nActualTimespan == ActualTimespan(nLastBlockTime, nFirstBlockTime,
                                          params, nextHeight)
        bnNew == Div256(Mul256(bnAvg, nActualTimespan),
                        AveragingWindowTimespan(params, nextHeight))
    IN IF Greater256(bnNew, params.powLimit)
       THEN GetCompact(params.powLimit)
       ELSE GetCompact(bnNew)

\* CalculateNextWorkRequired without the clamp to powLimit.
CalculateNextWorkRequired_NoLimit(bnAvg, nLastBlockTime, nFirstBlockTime, params, nextHeight) ==
    LET nActualTimespan == ActualTimespan(nLastBlockTime, nFirstBlockTime,
                                          params, nextHeight)
    IN GetCompact(Mul256(Div256(bnAvg,
                                AveragingWindowTimespan(params, nextHeight)),
                         nActualTimespan))

CalculateNextWorkRequired(bnAvg, nLastBlockTime, nFirstBlockTime, params, nextHeight) ==
    LET nActualTimespan == ActualTimespan(nLastBlockTime, nFirstBlockTime,
                                          params, nextHeight)
        bnNew == Mul256(Div256(bnAvg,
                               AveragingWindowTimespan(params, nextHeight)),
                        nActualTimespan)
    IN IF Greater256(bnNew, params.powLimit)
       THEN GetCompact(params.powLimit)
       ELSE GetCompact(bnNew)

\* A block index chain ending in pindexLast: the newest nNew blocks carry
\* bitsNew, the blocks below them bitsOld.  mtpLast and mtpFirst are the
\* median times past of pindexLast and of the block nPowAveragingWindow
\* below it.
NoChain == [present |-> FALSE]
BitsAt(chain, h) ==
    IF h > chain.nHeight - chain.nNew THEN chain.bitsNew ELSE chain.bitsOld

\* Lines 49-56: walk the window down from pindexLast, summing the targets.
\* The loop stops after nPowAveragingWindow blocks or below the genesis
\* block; first is the height it stopped at, -1 for a null pindexFirst.
\* Adding a block's target once per block is, modulo 2^256, the target times
\* the number of blocks that carry it.
WalkWindow(chain, nPowAveragingWindow) ==
    LET walked == IF chain.nHeight + 1 < nPowAveragingWindow
                  THEN chain.nHeight + 1
                  ELSE nPowAveragingWindow
        newest == IF chain.nNew < walked THEN chain.nNew ELSE walked
    IN [bnTot |-> Add256(Mul256(SetCompact(chain.bitsNew).value, newest),
                         Mul256(SetCompact(chain.bitsOld).value,
                                walked - newest)),
        first |-> IF chain.nHeight - nPowAveragingWindow < 0
                  THEN -1
                  ELSE chain.nHeight - nPowAveragingWindow]

\* Lines 34-45: the min-difficulty exception.
MinDifficultyApplies(pindexLast, pblock, params) ==
    /\ params.nPowAllowMinDifficultyBlocksAfterHeight # NoHeight
    /\ pindexLast.nHeight >= params.nPowAllowMinDifficultyBlocksAfterHeight
    /\ pblock.present
    /\ pblock.nTime > pindexLast.nTime
                        + PoWTargetSpacing(params, pindexLast.nHeight + 1) * 6

\* GetNextWorkRequired testing the min-difficulty exception before the
\* no-retargeting flag.
GetNextWorkRequired_MinDifficultyFirst(pindexLast, pblock, params) ==
    LET nProofOfWorkLimit == GetCompact(params.powLimit)
    IN IF ~pindexLast.present THEN nProofOfWorkLimit
       ELSE IF MinDifficultyApplies(pindexLast, pblock, params)
       THEN nProofOfWorkLimit
       ELSE BitsAt(pindexLast, pindexLast.nHeight)

\* GetNextWorkRequired retargeting as soon as the chain holds the window's
\* nPowAveragingWindow blocks.
GetNextWorkRequired_WindowSuffices(pindexLast, pblock, params) ==
    LET nProofOfWorkLimit == GetCompact(params.powLimit)
    IN IF ~pindexLast.present THEN nProofOfWorkLimit
       ELSE IF params.fPowNoRetargeting
       THEN BitsAt(pindexLast, pindexLast.nHeight)
       ELSE IF MinDifficultyApplies(pindexLast, pblock, params)
       THEN nProofOfWorkLimit
       ELSE LET walk == WalkWindow(pindexLast, params.nPowAveragingWindow)
            IN IF pindexLast.nHeight + 1 < params.nPowAveragingWindow
               THEN nProofOfWorkLimit
               ELSE CalculateNextWorkRequired(
                        Div256(walk.bnTot, params.nPowAveragingWindow),
                        pindexLast.mtpLast, pindexLast.mtpFirst,
                        params, pindexLast.nHeight + 1)

GetNextWorkRequired(pindexLast, pblock, params) ==
    LET nProofOfWorkLimit == GetCompact(params.powLimit)
    IN IF ~pindexLast.present THEN nProofOfWorkLimit
       ELSE IF params.fPowNoRetargeting
       THEN BitsAt(pindexLast, pindexLast.nHeight)
       ELSE IF MinDifficultyApplies(pindexLast, pblock, params)
       THEN nProofOfWorkLimit
       ELSE LET walk == WalkWindow(pindexLast, params.nPowAveragingWindow)
            IN IF walk.first < 0
               THEN nProofOfWorkLimit
               ELSE CalculateNextWorkRequired(
                        Div256(walk.bnTot, params.nPowAveragingWindow),
                        pindexLast.mtpLast, pindexLast.mtpFirst,
                        params, pindexLast.nHeight + 1)

\* The inputs: heights of pindexLast below, at and above both averaging
\* windows and at the test network's min-difficulty height; block targets
\* at both limits (0x2000ffff, 0x200f0f0f), below them (0x1f00ffff) and tiny
\* (0x021d4c00 = 7500, 0x03000001 = 1); median-time-past differences that
\* are negative, zero, the expected timespans, five seconds short of one and
\* far too long; candidate
\* headers at and past six target spacings after pindexLast.
LastHeights == {16, 17, 99, 100, 299187}
BlockBits == {536936447, 537857807, 520159231, 35474432, 50331649}
NewestCounts == {0, 1}
BaseTime == 1000000
MtpSpans == {-100000, 0, 6000, 7495, 7500, 100000}
CandidateDelays == {360, 361, 450, 451}
NoBlock == [present |-> FALSE, nTime |-> 0]
Candidates == {NoBlock} \cup {[present |-> TRUE, nTime |-> BaseTime + d] : d \in CandidateDelays}
Chains ==
    {[present |-> TRUE, nHeight |-> h, nTime |-> BaseTime, nNew |-> k,
      bitsOld |-> old, bitsNew |-> new,
      mtpLast |-> BaseTime + span, mtpFirst |-> BaseTime] :
        h \in LastHeights, k \in NewestCounts, old \in BlockBits,
        new \in BlockBits, span \in MtpSpans}
\* A chain is written one way only: no newest blocks, no second bits.
ChainsAndNone ==
    {c \in Chains : (c.nNew = 0) <=> (c.bitsNew = c.bitsOld)}

InitNextWork ==
    /\ main_cache = NullCache
    /\ main_cache_mutex = NoThread
    /\ main_seedhash = ZeroSeed
    /\ main_seedhash_set = FALSE
    /\ secondary_cache = NullCache
    /\ secondary_cache_mutex = NoThread
    /\ secondary_seedhash = ZeroSeed
    /\ secondary_seedhash_set = FALSE
    /\ rx_shutting_down = FALSE
    /\ rxVM_thread = [t \in Threads |-> [main_vm |-> NullVM, secondary_vm |-> NullVM]]
    /\ liveCaches = 0
    /\ lastUsed = "none"
    /\ \E pindexLast \in ChainsAndNone \cup {NoChain}, pblock \in Candidates,
          params \in ChainParams :
          /\ pc = [t \in Threads |-> IF t = 1 THEN "next_work" ELSE "idle"]
          /\ call = [t \in Threads |->
                       IF t = 1
                       THEN NewCall("next_work", NoKey,
                                    [pindexLast |-> pindexLast,
                                     pblock |-> pblock,
                                     params |-> params], NoPrev)
                       ELSE IdleCall]

\* GetNextWorkRequired(pindexLast, pblock, params) returns to its caller.
Call_GetNextWorkRequired(t) ==
    /\ pc[t] = "next_work"
    /\ Goto(t, "done")
    /\ call' = [call EXCEPT
          ![t].out = GetNextWorkRequired(call[t].input.pindexLast,
                                         call[t].input.pblock,
                                         call[t].input.params),
          ![t].ret = TRUE]
    /\ UNCHANGED <<kmVars, lastUsed>>

NextNextWork == Call_GetNextWorkRequired(1)
SpecNextWork == InitNextWork /\ [][NextNextWork]_vars

\* C18: with fPowNoRetargeting, GetNextWorkRequired returns pindexLast's
\* nBits for every present pindexLast and every candidate header, late
\* candidates and chains shorter than the averaging window included.
C18_NoRetargetingKeepsBits ==
    \A t \in Threads :
        (/\ Returned(t, "next_work")
         /\ call[t].input.params.fPowNoRetargeting
         /\ call[t].input.pindexLast.present)
        => call[t].out = BitsAt(call[t].input.pindexLast,
                                call[t].input.pindexLast.nHeight)
\* A regtest chain shorter than the window, with a candidate more than six
\* spacings late, kept bits that are not the limit's.
C18_Witness ==
    \E t \in Threads :
        /\ Returned(t, "next_work")
        /\ call[t].input.params.network = "regtest"
        /\ call[t].input.pindexLast.present
        /\ call[t].input.pindexLast.nHeight
             < call[t].input.params.nPowAveragingWindow
        /\ MinDifficultyApplies(call[t].input.pindexLast, call[t].input.pblock,
                                [call[t].input.params
                                    EXCEPT !.fPowNoRetargeting = FALSE])
        /\ call[t].out # GetCompact(call[t].input.params.powLimit)
        /\ call[t].out = call[t].input.pindexLast.bitsOld

\* The window of a retargeting call: the walk found nPowAveragingWindow
\* blocks, and no earlier return was taken.
Retargets(in) ==
    /\ in.pindexLast.present
    /\ ~in.params.fPowNoRetargeting
    /\ ~MinDifficultyApplies(in.pindexLast, in.pblock, in.params)
    /\ in.pindexLast.nHeight >= in.params.nPowAveragingWindow
\* All blocks of the window carry the encoding of powLimit, and the median
\* times past differ by the expected timespan.
AtLimitOnSchedule(in) ==
    /\ in.pindexLast.present
    /\ ~in.params.fPowNoRetargeting
    /\ in.pindexLast.nHeight >= in.params.nPowAveragingWindow
    /\ in.pindexLast.bitsOld = GetCompact(in.params.powLimit)
    /\ in.pindexLast.bitsNew = GetCompact(in.params.powLimit)
    /\ in.pindexLast.mtpLast - in.pindexLast.mtpFirst
         = AveragingWindowTimespan(in.params, in.pindexLast.nHeight + 1)

\* C19 as stated: with retargeting on, all window blocks at
\* compact(powLimit) and the median-time-past difference equal to the
\* expected timespan, GetNextWorkRequired returns compact(powLimit).
C19_FixedPointAtLimit ==
    \A t \in Threads :
        (Returned(t, "next_work") /\ AtLimitOnSchedule(call[t].input))
            => call[t].out = GetCompact(call[t].input.params.powLimit)
\* C19 as the code has it: in that case GetNextWorkRequired returns
\* 0x2000fffe, one mantissa step below compact(powLimit) = 0x2000ffff,
\* unless the min-difficulty exception returns compact(powLimit).
C19_OneStepBelowLimit ==
    \A t \in Threads :
        (Returned(t, "next_work") /\ AtLimitOnSchedule(call[t].input))
            => call[t].out =
                 IF MinDifficultyApplies(call[t].input.pindexLast,
                                         call[t].input.pblock,
                                         call[t].input.params)
                 THEN GetCompact(call[t].input.params.powLimit)
                 ELSE GetCompact(call[t].input.params.powLimit) - 1
\* A main-network window at the limit and on schedule was retargeted.
C19_Witness ==
    \E t \in Threads :
        /\ Returned(t, "next_work")
        /\ AtLimitOnSchedule(call[t].input)
        /\ Retargets(call[t].input)
        /\ call[t].input.params.network = "main"
        /\ call[t].out = 536936446

\* nBits encodes a target in (0, powLimit].
ValidBits(nBits, params) ==
    LET target == SetCompact(nBits)
    IN /\ ~target.fNegative
       /\ ~target.fOverflow
       /\ target.value # Zero256
       /\ ~Greater256(target.value, params.powLimit)
ValidWindow(in) ==
    /\ in.pindexLast.present
    /\ ValidBits(in.pindexLast.bitsOld, in.params)
    /\ ValidBits(in.pindexLast.bitsNew, in.params)
\* The floor of the mean target of the window is at least the expected
\* timespan.
MeanAtLeastTimespan(in) ==
    ~Less256(Div256(WalkWindow(in.pindexLast,
                               in.params.nPowAveragingWindow).bnTot,
                    in.params.nPowAveragingWindow),
             FromWord(AveragingWindowTimespan(in.params,
                                              in.pindexLast.nHeight + 1)))

\* C20 as stated: when every window block's nBits encodes a target in
\* (0, powLimit], the result of GetNextWorkRequired encodes a target in
\* (0, powLimit], whatever the median times past.
C20_ResultInRange ==
    \A t \in Threads :
        (Returned(t, "next_work") /\ ValidWindow(call[t].input))
            => ValidBits(call[t].out, call[t].input.params)
\* C20 as the code has it: the same, for the windows whose mean target is
\* at least the expected timespan nPowAveragingWindow * PoWTargetSpacing.
C20_ResultInRangeAboveTimespan ==
    \A t \in Threads :
        (/\ Returned(t, "next_work")
         /\ ValidWindow(call[t].input)
         /\ (Retargets(call[t].input) => MeanAtLeastTimespan(call[t].input)))
        => ValidBits(call[t].out, call[t].input.params)
\* A window at the limit with a long timespan was retargeted and clamped
\* to the limit.
C20_Witness ==
    \E t \in Threads :
        /\ Returned(t, "next_work")
        /\ ValidWindow(call[t].input)
        /\ Retargets(call[t].input)
        /\ MeanAtLeastTimespan(call[t].input)
        /\ call[t].input.pindexLast.mtpLast - call[t].input.pindexLast.mtpFirst
             > MaxActualTimespan(call[t].input.params,
                                 call[t].input.pindexLast.nHeight + 1)
        /\ call[t].out = GetCompact(call[t].input.params.powLimit)

(***************************************************************************)
(* The emission schedule (consensus/params.cpp 107-146, 342-409).          *)
(***************************************************************************)
SLOW_START_INTERVAL == 20000
PLATEAU_END == 120000
INITIAL_HALVING_END == 1171200
STANDARD_HALVING_INTERVAL == 2102400
MAX_HEIGHT == 16508927

\* The floor of a * b / d for a, b >= 0, as the 64-bit product and division
\* give it, computed without a product above 2^31:
\* a * b = a * (b \div d) * d + a * (b % d).
MulDiv(a, b, d) == a * (b \div d) + (a * (b % d)) \div d
\* nSubsidy >>= n on a value that is not negative.
ShiftRight(x, n) == x \div (2 ^ n)

\* GetBlockSubsidy with the plateau ending one block early.
GetBlockSubsidy_PlateauEndsEarly(nHeight) ==
    IF nHeight > MAX_HEIGHT THEN 0
    ELSE IF nHeight = 0 THEN 0
    ELSE IF nHeight <= SLOW_START_INTERVAL
    THEN 25000000 + MulDiv(nHeight - 1, 1225000000, 19999)
    ELSE IF nHeight < PLATEAU_END THEN 1250000000
    ELSE IF nHeight <= INITIAL_HALVING_END THEN 625000000
    ELSE LET halvings == (nHeight - INITIAL_HALVING_END)
                            \div STANDARD_HALVING_INTERVAL
         IN IF halvings >= 64 THEN 0 ELSE ShiftRight(312500000, halvings)

\* GetBlockSubsidy without the cut at MAX_HEIGHT.
GetBlockSubsidy_NoCap(nHeight) ==
    IF nHeight = 0 THEN 0
    ELSE IF nHeight <= SLOW_START_INTERVAL
    THEN 25000000 + MulDiv(nHeight - 1, 1225000000, 19999)
    ELSE IF nHeight <= PLATEAU_END THEN 1250000000
    ELSE IF nHeight <= INITIAL_HALVING_END THEN 625000000
    ELSE LET halvings == (nHeight - INITIAL_HALVING_END)
                            \div STANDARD_HALVING_INTERVAL
         IN IF halvings >= 64 THEN 0 ELSE ShiftRight(312500000, halvings)

\* Params::GetBlockSubsidy(nHeight), lines 342-409, for nHeight >= 0.
GetBlockSubsidy(nHeight) ==
    IF nHeight > MAX_HEIGHT THEN 0
    ELSE IF nHeight = 0 THEN 0
    ELSE IF nHeight <= SLOW_START_INTERVAL
    THEN 25000000 + MulDiv(nHeight - 1, 1225000000, 19999)
    ELSE IF nHeight <= PLATEAU_END THEN 1250000000
    ELSE IF nHeight <= INITIAL_HALVING_END THEN 625000000
    ELSE LET halvings == (nHeight - INITIAL_HALVING_END)
                            \div STANDARD_HALVING_INTERVAL
         IN IF halvings >= 64 THEN 0 ELSE ShiftRight(312500000, halvings)

\* Params::Halving(nHeight), lines 107-123.
Halving(nHeight) ==
    IF nHeight <= 120000 THEN 0
    ELSE IF nHeight <= 1171201 THEN 1
    ELSE 2 + ((nHeight - 1171201) \div 2102400)

\* Params::HalvingHeight(nHeight, halvingIndex), lines 131-146, for
\* nHeight >= 0 and halvingIndex > 0.
HalvingHeight(nHeight, halvingIndex) ==
    IF halvingIndex = 1 THEN 120001
    ELSE 1171202 + ((halvingIndex - 2) * 2102400)

\* The heights asked about: the whole slow start, and Margin blocks on
\* either side of every height at which the schedule or the halving index
\* can change.
Margin == 3
MaxHalvings == 8
ScheduleEdges ==
    {PLATEAU_END, INITIAL_HALVING_END, MAX_HEIGHT}
    \cup {INITIAL_HALVING_END + k * STANDARD_HALVING_INTERVAL : k \in 1..MaxHalvings}
SubsidyHeights ==
    0..(SLOW_START_INTERVAL + Margin)
    \cup UNION {(e - Margin)..(e + Margin) : e \in ScheduleEdges}
HalvingIndexes == 1..(MaxHalvings + 1)

InitSubsidy ==
    /\ main_cache = NullCache
    /\ main_cache_mutex = NoThread
    /\ main_seedhash = ZeroSeed
    /\ main_seedhash_set = FALSE
    /\ secondary_cache = NullCache
    /\ secondary_cache_mutex = NoThread
    /\ secondary_seedhash = ZeroSeed
    /\ secondary_seedhash_set = FALSE
    /\ rx_shutting_down = FALSE
    /\ rxVM_thread = [t \in Threads |-> [main_vm |-> NullVM, secondary_vm |-> NullVM]]
    /\ liveCaches = 0
    /\ lastUsed = "none"
    /\ \E nHeight \in SubsidyHeights, halvingIndex \in HalvingIndexes,
          op \in {"subsidy", "halving", "halving_height"} :
          /\ op # "halving_height" => halvingIndex = 1
          /\ pc = [t \in Threads |-> IF t = 1 THEN op ELSE "idle"]
          /\ call = [t \in Threads |->
                       IF t = 1
                       THEN NewCall(op, NoKey,
                                    [nHeight |-> nHeight,
                                     halvingIndex |-> halvingIndex], NoPrev)
                       ELSE IdleCall]

\* GetBlockSubsidy(nHeight) returns to its caller.
Call_GetBlockSubsidy(t) ==
    /\ pc[t] = "subsidy"
    /\ Goto(t, "done")
    /\ call' = [call EXCEPT ![t].out = GetBlockSubsidy(call[t].input.nHeight),
                            ![t].ret = TRUE]
    /\ UNCHANGED <<kmVars, lastUsed>>

\* Halving(nHeight) returns to its caller.
Call_Halving(t) ==
    /\ pc[t] = "halving"
    /\ Goto(t, "done")
    /\ call' = [call EXCEPT ![t].out = Halving(call[t].input.nHeight),
                            ![t].ret = TRUE]
    /\ UNCHANGED <<kmVars, lastUsed>>

\* HalvingHeight(nHeight, halvingIndex) returns to its caller.
Call_HalvingHeight(t) ==
    /\ pc[t] = "halving_height"
    /\ Goto(t, "done")
    /\ call' = [call EXCEPT
          ![t].out = HalvingHeight(call[t].input.nHeight,
                                   call[t].input.halvingIndex),
          ![t].ret = TRUE]
    /\ UNCHANGED <<kmVars, lastUsed>>

NextSubsidy ==
    \/ Call_GetBlockSubsidy(1)
    \/ Call_Halving(1)
    \/ Call_HalvingHeight(1)
SpecSubsidy == InitSubsidy /\ [][NextSubsidy]_vars

\* The schedule as it is stated, piece by piece.
StatedSubsidy(h) ==
    CASE h = 0 -> 0
      [] 1 <= h /\ h <= 20000 -> 25000000 + MulDiv(h - 1, 1225000000, 19999)
      [] 20000 < h /\ h <= 120000 -> 1250000000
      [] 120000 < h /\ h <= 1171200 -> 625000000
      [] 1171200 < h /\ h <= 16508927 ->
            312500000 \div (2 ^ ((h - 1171200) \div 2102400))
      [] h > 16508927 -> 0
StatedValues ==
    [h \in {1, 20000, 120001, 1171201, 3273601, 16508928} |->
        CASE h = 1 -> 25000000
          [] h = 20000 -> 1250000000
          [] h = 120001 -> 625000000
          [] h = 1171201 -> 312500000
          [] h = 3273601 -> 156250000
          [] h = 16508928 -> 0]

BlocksPastCap == 50
\* The last height of each run of heights that take the same branch of
\* GetBlockSubsidy with the same number of halvings.
LastHeightsOfRuns ==
    {PLATEAU_END, INITIAL_HALVING_END, MAX_HEIGHT}
    \cup {h \in {INITIAL_HALVING_END + k * STANDARD_HALVING_INTERVAL - 1 :
                    k \in 1..MaxHalvings} : h < MAX_HEIGHT}
RunEnd(h) ==
    CHOOSE e \in LastHeightsOfRuns :
        e > h /\ \A other \in LastHeightsOfRuns : other > h => e <= other

InitChain ==
    /\ main_cache = NullCache
    /\ main_cache_mutex = NoThread
    /\ main_seedhash = ZeroSeed
    /\ main_seedhash_set = FALSE
    /\ secondary_cache = NullCache
    /\ secondary_cache_mutex = NoThread
    /\ secondary_seedhash = ZeroSeed
    /\ secondary_seedhash_set = FALSE
    /\ rx_shutting_down = FALSE
    /\ rxVM_thread = [t \in Threads |-> [main_vm |-> NullVM, secondary_vm |-> NullVM]]
    /\ liveCaches = 0
    /\ lastUsed = "none"
    /\ pc = [t \in Threads |-> IF t = 1 THEN "chain" ELSE "idle"]
    /\ call = [t \in Threads |->
                 IF t = 1
                 THEN [NewCall("connect", NoKey, [nHeight |-> 0], NoPrev)
                          EXCEPT !.out = Zero256]
                 ELSE IdleCall]

\* One block is connected: in the slow start, where every height has its
\* own subsidy, and past MAX_HEIGHT.
ConnectBlock(t) ==
    LET nHeight == call[t].input.nHeight + 1 IN
    /\ pc[t] = "chain"
    /\ \/ nHeight <= SLOW_START_INTERVAL
       \/ nHeight > MAX_HEIGHT /\ nHeight <= MAX_HEIGHT + BlocksPastCap
    /\ call' = [call EXCEPT
          ![t].input = [nHeight |-> nHeight],
          ![t].out = Add256(call[t].out, FromWord(GetBlockSubsidy(nHeight)))]
    /\ UNCHANGED <<kmVars, pc, lastUsed>>

\* The blocks up to the end of a run are connected: every one of them adds
\* the subsidy of the first, so the run adds that subsidy times its length.
ConnectRun(t) ==
    LET first == call[t].input.nHeight + 1
        last == RunEnd(call[t].input.nHeight)
    IN /\ pc[t] = "chain"
       /\ first > SLOW_START_INTERVAL
       /\ first <= MAX_HEIGHT
       /\ GetBlockSubsidy(first) = GetBlockSubsidy(last)
       /\ call' = [call EXCEPT
             ![t].input = [nHeight |-> last],
             ![t].out = Add256(call[t].out,
                               Mul256(FromWord(GetBlockSubsidy(first)),
                                      last - first + 1))]
       /\ UNCHANGED <<kmVars, pc, lastUsed>>

NextChain == ConnectBlock(1) \/ ConnectRun(1)
SpecChain == InitChain /\ [][NextChain]_vars

\* 21 * 10^14 and 2,099,999,998,783,572 monetas.
SupplyCap == Mul256(Mul256(FromWord(21000000), 10000), 10000)
FinalSupply ==
    Add256(Mul256(Mul256(FromWord(20999999), 10000), 10000), FromWord(98783572))

\* C22: the subsidy is never negative; the sum of the subsidies of heights
\* 1..h never decreases as h grows and never exceeds 21 * 10^14 monetas; it
\* reaches 2,099,999,998,783,572 monetas at height 16508927 and stays there.
C22_EmissionCapped ==
    /\ [](\A t \in Threads :
            pc[t] = "chain" =>
               /\ GetBlockSubsidy(call[t].input.nHeight) >= 0
               /\ ~Less256(SupplyCap, call[t].out)
               /\ call[t].input.nHeight >= MAX_HEIGHT
                     => call[t].out = FinalSupply
               /\ call[t].input.nHeight < MAX_HEIGHT
                     => Less256(call[t].out, FinalSupply))
    /\ [][\A t \in Threads :
            pc[t] = "chain" => ~Less256(call'[t].out, call[t].out)]_vars
\* The chain is past MAX_HEIGHT with the final supply.
C22_Witness ==
    \E t \in Threads :
        /\ pc[t] = "chain"
        /\ call[t].input.nHeight = MAX_HEIGHT + 1
        /\ call[t].out = FinalSupply

\* C30: for every height h with 120000 < h <= 16508927 the subsidy is
\* 1,250,000,000 >> Halving(h), and HalvingHeight(h, i) is the first height
\* at which Halving returns i.
C30_HalvingAgreesWithSubsidy ==
    \A t \in Threads :
        pc[t] = "done" =>
           /\ ( /\ call[t].op = "halving"
                /\ call[t].input.nHeight > PLATEAU_END
                /\ call[t].input.nHeight <= MAX_HEIGHT )
                 => GetBlockSubsidy(call[t].input.nHeight)
                       = ShiftRight(1250000000, call[t].out)
           /\ call[t].op = "halving_height"
                 => /\ Halving(call[t].out) = call[t].input.halvingIndex
                    /\ Halving(call[t].out - 1) < call[t].input.halvingIndex

(***************************************************************************)
(* Funding streams: FundingPeriodIndex, FundingStream::ValidateFundingStream*)
(* and FundingStream::Recipient.  Heights are 32-bit ints: a sum that       *)
(* leaves the range wraps as the two's-complement addition does.            *)
(***************************************************************************)
INT_MAX == 2147483647
INT_MIN == (-INT_MAX) - 1
AddInt(a, b) ==
    IF b > 0 /\ a > INT_MAX - b THEN INT_MIN + ((a - (INT_MAX - b)) - 1)
    ELSE IF b < 0 /\ a < INT_MIN - b THEN INT_MAX - (((INT_MIN - b) - a) - 1)
    ELSE a + b
\* C++ '/' and '%' on ints with a positive divisor.
DivInt(a, b) ==
    IF a = INT_MIN
    THEN -(IF INT_MAX % b = b - 1 THEN (INT_MAX \div b) + 1 ELSE INT_MAX \div b)
    ELSE TruncDiv(a, b)
RemInt(a, b) == a - b * DivInt(a, b)

\* The activation heights of chainparams.cpp and the funding period length.
CanopyActivationHeight == 5
NU6ActivationHeight == 7
FundingPeriodLengths == {1, 4, 6, 35000}
FundingParams(nFundingPeriodLength) ==
    [nCanopyActivationHeight |-> CanopyActivationHeight,
     nNU6ActivationHeight |-> NU6ActivationHeight,
     nFundingPeriodLength |-> nFundingPeriodLength]
\* NetworkUpgradeActive: the upgrade is active from its activation height on.
NetworkUpgradeActive(nHeight, nActivationHeight) == nHeight >= nActivationHeight

FundingPeriodIndex(params, fundingStreamStartHeight, nHeight) ==
    IF fundingStreamStartHeight > nHeight THEN 0
    ELSE LET firstHalvingHeight == HalvingHeight(fundingStreamStartHeight, 1)
             rem == RemInt(fundingStreamStartHeight - firstHalvingHeight,
                           params.nFundingPeriodLength)
             startPeriodOffset ==
                 IF rem < 0 THEN rem + params.nFundingPeriodLength ELSE rem
         IN DivInt(AddInt(nHeight - fundingStreamStartHeight, startPeriodOffset),
                   params.nFundingPeriodLength)

HasLockbox(recipients) == \E k \in 1..Len(recipients) : recipients[k] = "Lockbox"
FundingStreamError(e) == [ok |-> FALSE, error |-> e]
FundingStream(startHeight, endHeight, recipients) ==
    [ok |-> TRUE, startHeight |-> startHeight, endHeight |-> endHeight,
     recipients |-> recipients]

\* expectedRecipients is an int compared with a size_t: a negative value
\* converts to a huge one and is greater than any size.
ValidateFundingStream_NoPlusOne(params, startHeight, endHeight, recipients) ==
    IF ~NetworkUpgradeActive(startHeight, params.nCanopyActivationHeight)
    THEN FundingStreamError("CANOPY_NOT_ACTIVE")
    ELSE IF endHeight < startHeight THEN FundingStreamError("ILLEGAL_RANGE")
    ELSE LET expectedRecipients ==
                 FundingPeriodIndex(params, startHeight, endHeight - 1)
         IN IF expectedRecipients < 0 \/ expectedRecipients > Len(recipients)
            THEN FundingStreamError("INSUFFICIENT_RECIPIENTS")
            ELSE IF /\ ~NetworkUpgradeActive(startHeight, params.nNU6ActivationHeight)
                    /\ HasLockbox(recipients)
            THEN FundingStreamError("NU6_NOT_ACTIVE")
            ELSE FundingStream(startHeight, endHeight, recipients)
ValidateFundingStream(params, startHeight, endHeight, recipients) ==
    IF ~NetworkUpgradeActive(startHeight, params.nCanopyActivationHeight)
    THEN FundingStreamError("CANOPY_NOT_ACTIVE")
    ELSE IF endHeight < startHeight THEN FundingStreamError("ILLEGAL_RANGE")
    ELSE LET expectedRecipients ==
                 AddInt(FundingPeriodIndex(params, startHeight, endHeight - 1), 1)
         IN IF expectedRecipients < 0 \/ expectedRecipients > Len(recipients)
            THEN FundingStreamError("INSUFFICIENT_RECIPIENTS")
            ELSE IF /\ ~NetworkUpgradeActive(startHeight, params.nNU6ActivationHeight)
                    /\ HasLockbox(recipients)
            THEN FundingStreamError("NU6_NOT_ACTIVE")
            ELSE FundingStream(startHeight, endHeight, recipients)

\* FundingStream::Recipient: the assertion and the recipient it guards.
Recipient(params, fs, nHeight) ==
    LET addressIndex == FundingPeriodIndex(params, fs.startHeight, nHeight)
    IN IF addressIndex >= 0 /\ addressIndex < Len(fs.recipients)
       THEN [asserted |-> TRUE, addressIndex |-> addressIndex,
             recipient |-> fs.recipients[addressIndex + 1]]
       ELSE [asserted |-> FALSE, addressIndex |-> addressIndex,
             recipient |-> "none"]

MaxRecipients == 3
MaxSpan == 13
RecipientKinds == {"Script", "Lockbox"}
RecipientLists ==
    UNION {[1..n -> RecipientKinds] : n \in 0..MaxRecipients}
StartHeights == {4, 5, 6, 7, 8, 119999, 120001, 120002, 120007}
\* End heights of a stream that starts at startHeight: around the start, one
\* and two long periods later, and at the top of the int range.
EndHeights(startHeight) ==
    {startHeight + d : d \in (-2)..MaxSpan}
    \cup {startHeight + d : d \in {14996, 14997, 34999, 35000, 35001, 49997}}
    \cup {INT_MAX - 1, INT_MAX}
NoStream == [ok |-> FALSE, error |-> "none"]

InitFunding ==
    /\ main_cache = NullCache
    /\ main_cache_mutex = NoThread
    /\ main_seedhash = ZeroSeed
    /\ main_seedhash_set = FALSE
    /\ secondary_cache = NullCache
    /\ secondary_cache_mutex = NoThread
    /\ secondary_seedhash = ZeroSeed
    /\ secondary_seedhash_set = FALSE
    /\ rx_shutting_down = FALSE
    /\ rxVM_thread = [t \in Threads |-> [main_vm |-> NullVM, secondary_vm |-> NullVM]]
    /\ liveCaches = 0
    /\ lastUsed = "none"
    /\ pc = [t \in Threads |-> IF t = 1 THEN "validate" ELSE "idle"]
    /\ \E startHeight \in StartHeights, recipients \in RecipientLists,
          nFundingPeriodLength \in FundingPeriodLengths :
          \E endHeight \in EndHeights(startHeight) :
             call = [t \in Threads |->
                       IF t = 1
                       THEN NewCall("validate", NoKey,
                               [params |-> FundingParams(nFundingPeriodLength),
                                startHeight |-> startHeight,
                                endHeight |-> endHeight,
                                recipients |-> recipients,
                                fs |-> NoStream,
                                nHeight |-> NoHeight], NoPrev)
                       ELSE IdleCall]

\* ValidateFundingStream returns the stream or the error; the stream is
\* stored (vFundingStreams), an error is thrown by the caller.
Call_ValidateFundingStream(t) ==
    LET in == call[t].input
        result == ValidateFundingStream(in.params, in.startHeight,
                                        in.endHeight, in.recipients)
    IN /\ pc[t] = "validate"
       /\ Goto(t, IF result.ok THEN "stream" ELSE "done")
       /\ call' = [call EXCEPT ![t].input.fs = result, ![t].ret = result.ok]
       /\ UNCHANGED <<kmVars, lastUsed>>

\* The heights of a stream the model asks the recipient of: its first and
\* its last ones.
ActiveHeights(params, fs) ==
    {h \in (fs.startHeight..(fs.startHeight + MaxSpan))
           \cup ((fs.endHeight - MaxSpan)..(fs.endHeight - 1)) :
        /\ NetworkUpgradeActive(h, params.nCanopyActivationHeight)
        /\ h >= fs.startHeight
        /\ h < fs.endHeight}

\* GetActiveFundingStreamElements(nHeight): the stream is active at nHeight
\* and Recipient is called; a failed assertion aborts the program.
Call_Recipient(t) ==
    LET in == call[t].input IN
    /\ pc[t] = "stream"
    /\ \E nHeight \in ActiveHeights(in.params, in.fs) :
          LET result == Recipient(in.params, in.fs, nHeight)
          IN /\ Goto(t, IF result.asserted THEN "done" ELSE "abort")
             /\ call' = [call EXCEPT ![t].op = "recipient",
                                     ![t].input.nHeight = nHeight,
                                     ![t].out = result,
                                     ![t].ret = result.asserted]
    /\ UNCHANGED <<kmVars, lastUsed>>

NextFunding == Call_ValidateFundingStream(1) \/ Call_Recipient(1)
SpecFunding == InitFunding /\ [][NextFunding]_vars

\* The stream has fewer recipients than the periods its interval touches.
TooFewRecipients(in) ==
    \E h \in ActiveHeights(in.params,
                           FundingStream(in.startHeight, in.endHeight, in.recipients)) :
        FundingPeriodIndex(in.params, in.startHeight, h) >= Len(in.recipients)

\* C23: for a stream accepted by ValidateFundingStream and a height in
\* [start, end), the period index is at least 0 and below the number of
\* recipients, so the assertion of Recipient holds; a stream with too few
\* recipients, with end < start or starting before Canopy is rejected with
\* its error.
C23_AcceptedStreamHasRecipient ==
    \A t \in Threads :
        /\ pc[t] # "abort"
        /\ Returned(t, "recipient") =>
              /\ call[t].out.asserted
              /\ call[t].out.addressIndex >= 0
              /\ call[t].out.addressIndex < Len(call[t].input.recipients)
        /\ (pc[t] \in {"stream", "done"} /\ call[t].op \in {"validate", "recipient"}) =>
              LET in == call[t].input IN
              /\ in.startHeight < CanopyActivationHeight
                    => in.fs = FundingStreamError("CANOPY_NOT_ACTIVE")
              /\ in.endHeight < in.startHeight
                    => /\ ~in.fs.ok
                       /\ in.fs.error \in {"CANOPY_NOT_ACTIVE", "ILLEGAL_RANGE"}
              /\ ( /\ in.startHeight >= CanopyActivationHeight
                   /\ in.endHeight < in.startHeight )
                    => in.fs = FundingStreamError("ILLEGAL_RANGE")
              /\ ( /\ in.startHeight >= CanopyActivationHeight
                   /\ in.endHeight >= in.startHeight
                   /\ TooFewRecipients(in) )
                    => in.fs = FundingStreamError("INSUFFICIENT_RECIPIENTS")
\* Recipient returned the last recipient of a stream that spans several
\* periods, at the stream's last height.
C23_Witness ==
    \E t \in Threads :
        /\ Returned(t, "recipient")
        /\ call[t].input.nHeight = call[t].input.endHeight - 1
        /\ call[t].out.addressIndex = MaxRecipients - 1
        /\ Len(call[t].input.recipients) = MaxRecipients

\* The retarget as it is stated: the mean target divided by the expected
\* timespan, then multiplied by the damped and clamped timespan, then
\* limited to powLimit.
StatedTimespan(in) ==
    LET expected == in.params.nPowAveragingWindow
                      * PoWTargetSpacing(in.params, in.pindexLast.nHeight + 1)
        timespan == in.pindexLast.mtpLast - in.pindexLast.mtpFirst
        quarter == IF timespan >= expected
                   THEN (timespan - expected) \div 4
                   ELSE -((expected - timespan) \div 4)
        lowest == (expected * (100 - in.params.nPowMaxAdjustUp)) \div 100
        highest == (expected * (100 + in.params.nPowMaxAdjustDown)) \div 100
        damped == expected + quarter
    IN [expected |-> expected, lowest |-> lowest, highest |-> highest,
        damped |-> damped,
        actual |-> IF damped < lowest THEN lowest
                   ELSE IF damped > highest THEN highest ELSE damped]
StatedTarget(in) ==
    LET bnAvg == Div256(WalkWindow(in.pindexLast,
                                   in.params.nPowAveragingWindow).bnTot,
                        in.params.nPowAveragingWindow)
        stated == StatedTimespan(in)
        product == Mul256(Div256(bnAvg, stated.expected), stated.actual)
    IN IF Less256(in.params.powLimit, product) THEN in.params.powLimit
       ELSE product

\* C28: a retargeting call returns the encoding of
\* min(powLimit, floor(bnAvg / expected) * actual), expected being
\* nPowAveragingWindow * PoWTargetSpacing(next height) and actual being
\* expected + (timespan - expected) / 4, the quotient truncated toward zero,
\* clamped to [expected * (100 - up) / 100, expected * (100 + down) / 100];
\* the timespan the code uses is inside that interval.
C28_RetargetFormula ==
    \A t \in Threads :
        (Returned(t, "next_work") /\ Retargets(call[t].input)) =>
            LET in == call[t].input
                stated == StatedTimespan(in)
                used == ActualTimespan(in.pindexLast.mtpLast,
                                       in.pindexLast.mtpFirst, in.params,
                                       in.pindexLast.nHeight + 1)
            IN /\ used = stated.actual
               /\ stated.lowest <= used
               /\ used <= stated.highest
               /\ call[t].out = GetCompact(StatedTarget(in))
\* A main-network window five seconds short of the expected timespan was
\* retargeted with the unclamped timespan expected - 1, below the limit.
C28_Witness ==
    \E t \in Threads :
        /\ Returned(t, "next_work")
        /\ Retargets(call[t].input)
        /\ LET stated == StatedTimespan(call[t].input)
           IN /\ call[t].input.pindexLast.mtpLast
                   - call[t].input.pindexLast.mtpFirst = stated.expected - 5
              /\ stated.actual = stated.expected - 1
              /\ stated.lowest < stated.actual
        /\ call[t].out # GetCompact(call[t].input.params.powLimit)
        /\ call[t].out # 0

\* A call that reaches the window walk: retargeting is on and the
\* min-difficulty exception is not triggered.
WalksWindow(in) ==
    /\ in.pindexLast.present
    /\ ~in.params.fPowNoRetargeting
    /\ ~MinDifficultyApplies(in.pindexLast, in.pblock, in.params)
\* The chain ending at pindexLast holds the blocks of heights 0..nHeight.
BlocksInChain(chain) == chain.nHeight + 1
\* The sum of the targets of the W newest blocks, and the retarget from it.
WindowSum(chain, W) ==
    LET newest == IF chain.nNew < W THEN chain.nNew ELSE W
    IN Add256(Mul256(SetCompact(chain.bitsNew).value, newest),
              Mul256(SetCompact(chain.bitsOld).value, W - newest))
RetargetOfWindow(in) ==
    CalculateNextWorkRequired(
        Div256(WindowSum(in.pindexLast, in.params.nPowAveragingWindow),
               in.params.nPowAveragingWindow),
        in.pindexLast.mtpLast, in.pindexLast.mtpFirst, in.params,
        in.pindexLast.nHeight + 1)

\* C29 as stated: with retargeting on and no min-difficulty exception,
\* GetNextWorkRequired returns compact(powLimit) for insufficient history
\* exactly when the chain ending at pindexLast holds fewer than
\* nPowAveragingWindow blocks; when it holds that many, the result is the
\* retarget of the sum of exactly those targets.
C29_LimitIffFewerThanWindow ==
    \A t \in Threads :
        (Returned(t, "next_work") /\ WalksWindow(call[t].input)) =>
            LET in == call[t].input
            IN call[t].out =
                 IF BlocksInChain(in.pindexLast) < in.params.nPowAveragingWindow
                 THEN GetCompact(in.params.powLimit)
                 ELSE RetargetOfWindow(in)
\* C29 as the code has it: compact(powLimit) is returned for insufficient
\* history exactly when the chain holds at most nPowAveragingWindow blocks;
\* when it holds one more at least, the result is the retarget of the sum
\* of the targets of exactly the nPowAveragingWindow newest blocks.
C29_LimitIffAtMostWindow ==
    \A t \in Threads :
        (Returned(t, "next_work") /\ WalksWindow(call[t].input)) =>
            LET in == call[t].input
            IN call[t].out =
                 IF BlocksInChain(in.pindexLast) <= in.params.nPowAveragingWindow
                 THEN GetCompact(in.params.powLimit)
                 ELSE RetargetOfWindow(in)
\* A chain of exactly nPowAveragingWindow blocks whose retarget would not be
\* compact(powLimit) got compact(powLimit).
C29_Witness ==
    \E t \in Threads :
        /\ Returned(t, "next_work")
        /\ WalksWindow(call[t].input)
        /\ BlocksInChain(call[t].input.pindexLast)
             = call[t].input.params.nPowAveragingWindow
        /\ RetargetOfWindow(call[t].input)
             # GetCompact(call[t].input.params.powLimit)
        /\ call[t].out = GetCompact(call[t].input.params.powLimit)

(***************************************************************************)
(* The key manager under fair scheduling: a thread inside a call takes its *)
(* next step if that step is possible again and again.  A step that takes  *)
(* a mutex is possible whenever the mutex is free.                         *)
(***************************************************************************)
InCall(t) == pc[t] \notin {"idle", "done"}
Progress(t) == InCall(t) /\ Step(t)
SpecFair == Spec /\ \A t \in Threads : SF_vars(Progress(t))

\* The positions at which a thread is about to take a mutex.
LockLabels ==
    {"init_lock", "set_lock", "hws_main_lock", "hws_sec_lock",
     "hws_slow_lock", "hash_lock", "sd_main", "sd_sec"}
HoldsMain(t) == main_cache_mutex = t
HoldsSecondary(t) == secondary_cache_mutex = t

HashingMain(t) == pc[t] = "main_calc"
HashingSecondary(t) == pc[t] = "sec_calc"
RekeyingMain(t) == pc[t] \in {"init_initcache", "set_initcache"}
RekeyingSecondary(t) == pc[t] = "hws_slow_initcache"

\* C25: while a thread computes a hash with a VM of the main (secondary)
\* slot, no other thread is inside randomx_init_cache on that slot's cache
\* and no step releases or re-keys it; the seed recorded for the slot is set,
\* is the seed the caller asked for, and no step changes it before the hash
\* has finished.
C25_NoRekeyDuringHash ==
    /\ [](\A t \in Threads :
            /\ HashingMain(t) =>
                  /\ \A u \in Threads \ {t} : ~RekeyingMain(u) /\ ~HashingMain(u)
                  /\ main_cache.alloc /\ main_seedhash_set
                  /\ call[t].seedhash # NoKey => main_seedhash = call[t].seedhash
            /\ HashingSecondary(t) =>
                  /\ \A u \in Threads \ {t} :
                        ~RekeyingSecondary(u) /\ ~HashingSecondary(u)
                  /\ secondary_cache.alloc /\ secondary_seedhash_set
                  /\ secondary_seedhash = call[t].seedhash)
    /\ [][\A t \in Threads :
            /\ HashingMain(t) => UNCHANGED mainVars
            /\ HashingSecondary(t) => UNCHANGED secondaryVars]_vars
\* A thread is inside the hash of the main slot while the other thread, which
\* is to re-key that slot with another seed, waits for the mutex.
C25_Witness ==
    \E t, u \in Threads :
        /\ t # u
        /\ HashingMain(t)
        /\ call[t].op = "hws"
        /\ pc[u] = "set_lock"
        /\ call[u].seedhash # main_seedhash

\* The seed and flag of both slots.
seedVars == <<main_seedhash, main_seedhash_set, secondary_seedhash,
              secondary_seedhash_set>>
\* A step in which thread t fails to allocate a cache, and one in which its
\* call returns at once because of a null or wrongly sized argument.
AllocationFails(t) ==
    /\ pc[t] \in {"init_lock", "set_lock", "hws_slow_lock"}
    /\ ~call[t].oom
    /\ call'[t].oom
InvalidArgumentCall(t) ==
    /\ pc[t] = "idle"
    /\ pc'[t] = "done"
    /\ call'[t].seedhash = NullPtr \/ call'[t].input = NullPtr

\* C26: whenever a slot's mutex is free and the slot's seed is marked set,
\* the slot's cache is allocated and was last initialised with the recorded
\* seed; a failed allocation leaves seeds and flags unchanged, a call with a
\* null or wrongly sized argument changes nothing, and shutdown clears a
\* slot's cache and flag together.
C26_SlotConsistent ==
    /\ []( /\ (main_cache_mutex = NoThread /\ main_seedhash_set)
                => main_cache.alloc /\ main_cache.key = main_seedhash
           /\ (secondary_cache_mutex = NoThread /\ secondary_seedhash_set)
                => /\ secondary_cache.alloc
                   /\ secondary_cache.key = secondary_seedhash )
    /\ [][\A t \in Threads :
            /\ AllocationFails(t) => UNCHANGED seedVars
            /\ InvalidArgumentCall(t) => UNCHANGED kmVars
            /\ (pc[t] = "sd_main" /\ pc'[t] # "sd_main")
                  => ~main_cache'.alloc /\ ~main_seedhash_set'
            /\ (pc[t] = "sd_sec" /\ pc'[t] # "sd_sec")
                  => ~secondary_cache'.alloc /\ ~secondary_seedhash_set']_vars
\* Both slots are keyed, with different seeds, after an allocation has
\* failed in a call of some thread and while no mutex is held.
C26_Witness ==
    /\ main_cache_mutex = NoThread
    /\ secondary_cache_mutex = NoThread
    /\ main_seedhash_set /\ main_cache.key = main_seedhash
    /\ secondary_seedhash_set /\ secondary_cache.key = secondary_seedhash
    /\ main_seedhash # secondary_seedhash
    /\ \E t \in Threads : pc[t] = "done" /\ call[t].oom

\* Thread t takes a step at one of the given positions.
StepsAt(t, labels) == pc[t] \in labels /\ pc'[t] # pc[t]
\* The positions inside RandomX_Hash_WithSeed, inside RandomX_SetMainSeedHash
\* and inside the three functions that write the main slot.
HashWithSeedLabels ==
    {"hws_main_check", "hws_main_lock", "hws_sec_check", "hws_sec_lock",
     "hws_slow_lock", "hws_slow_initcache", "sec_calc"}
SetMainSeedLabels == {"set_lock", "set_initcache"}
MainSlotWriterLabels ==
    {"init_lock", "init_initcache", "set_lock", "set_initcache", "sd_main"}
\* The call is RandomX_Hash_WithSeed, made by the program or by
\* CheckRandomXSolution for a header with a prev index.
IsHashWithSeed(c) == c.op = "hws" \/ (c.op = "check" /\ c.prev.present)

\* C27: no step of a RandomX_Hash_WithSeed call, made by the program or by
\* CheckRandomXSolution with a prev index, changes the main cache, seed or
\* flag; no step of RandomX_SetMainSeedHash changes the secondary cache,
\* seed or flag; and every step that changes the main slot is a step of
\* RandomX_Init, RandomX_SetMainSeedHash or RandomX_Shutdown.
C27_VerificationKeepsMainSlot ==
    [][ /\ \A t \in Threads :
              /\ ( \/ StepsAt(t, HashWithSeedLabels)
                   \/ StepsAt(t, {"main_calc"}) /\ IsHashWithSeed(call[t])
                   \/ StepsAt(t, {"idle"}) /\ IsHashWithSeed(call'[t]) )
                    => UNCHANGED mainVars
              /\ ( \/ StepsAt(t, SetMainSeedLabels)
                   \/ StepsAt(t, {"idle"}) /\ call'[t].op = "set" )
                    => UNCHANGED secondaryVars
        /\ mainVars' # mainVars
              => \E t \in Threads : StepsAt(t, MainSlotWriterLabels) ]_vars
\* CheckRandomXSolution with a prev index was served by the secondary slot,
\* keyed for it with a seed that is not the main seed, which is still set.
C27_Witness ==
    \E t \in Threads :
        /\ Returned(t, "check")
        /\ call[t].prev.present
        /\ call[t].ret
        /\ main_seedhash_set
        /\ main_cache.key = main_seedhash
        /\ secondary_seedhash_set
        /\ call[t].usedSeed = secondary_seedhash
        /\ secondary_seedhash # main_seedhash

=============================================================================
